---- MODULE Spec2Model ----
(***************************************************************************)
(* Model of the model-lifecycle and generation engine of                   *)
(* src/model_inference.py: ConversationManager (the conversation store),  *)
(* ModelInference (generation, streaming generation with its worker       *)
(* thread and hand-off queue) and ModelManager (the registry and chat).   *)
(*                                                                         *)
(* Text is a sequence of one-character strings, so that concatenation and *)
(* str.strip() are computed.  A stored turn is [role, content]; the       *)
(* wall-clock "timestamp" field of a message is not read by any operation *)
(* and is left out.                                                        *)
(***************************************************************************)
EXTENDS Integers, Sequences, FiniteSets, TLC

\* ---------------------------------------------------------------- bounds
MaxMaxHistory == 3   \* largest max_history a stand-alone store is built with
MaxAppends    == 7   \* add_message calls on a stand-alone store
MaxLoads      == 3   \* load_model calls on a registry
MaxNewTokens  == 2   \* config.max_new_tokens of a generation
MaxChats      == 1   \* exchanges a conversation holds where chat is not the subject
MaxStreams    == 1   \* chat_streaming calls on a registry
MaxRuns       == 2   \* run_training calls on a pipeline
MaxTextLen    == 5   \* characters of a text given to clean_text
MaxChunkText  == 7   \* characters of a text given to chunk_text
MaxChunkSize  == 2   \* chunk_size given to chunk_text
MaxMinLength  == 2   \* config.min_length of a DataProcessor
MaxExamples   == 10  \* examples that process_data splits
MaxDedupTexts == 3   \* texts in a list given to remove_duplicates
MaxFiles      == 2   \* data files given to process_data
MaxCalls      == 1   \* calls a thread makes where it runs beside another thread
MaxJobs       == 2   \* training jobs started

\* ------------------------------------------------------------- constants
DefaultMaxHistory == 10   \* ConversationManager.__init__(max_history=10)

None     == "None"
ModelIds == {"m1", "m2"}
\* A model path is the list of its segments.
Paths    == {<<"d", "m1">>, <<"e", "m2">>}
ConvIds  == {"c1", "c2"}
Roles    == {"user", "assistant"}
Contents == {<<"a">>}
Messages == {<<"h">>, <<"y">>}
\* Token ids of the tokenizer: two text tokens and the end-of-sequence token.
TextTokens == {"a", " "}
EosToken   == "<eos>"

VARIABLES
  max_history,       \* ConversationManager.max_history
  conversations,     \* ConversationManager.conversations: id -> list of turns
  appended,          \* history: per id, the latest turns appended since it was last emptied
  nAppends,          \* history: number of add_message calls made directly
  models,            \* ModelManager.models: insertion-ordered dict, a list of [id, handle]
  default_model_id,  \* ModelManager.default_model_id
  nLoads,            \* number of load_model calls; serial of the next ModelInference object
  unloaded,          \* history: the ModelInference objects unload_model has removed
  s_pc,              \* where the chat_streaming generator of the current call stands
  s_call,            \* its arguments: message, conversation_id, model_id
  s_handle,          \* the ModelInference it resolved (`model`)
  s_gen,             \* history: the tokens the model generates for this call
  full_response,     \* chat_streaming's full_response
  yielded,           \* history: the fragments yielded to the consumer
  w_pc,              \* where the generation thread stands
  w_feed,            \* the values model.generate has still to hand to streamer.put
  queue,             \* CustomStreamer.queue
  finished,          \* CustomStreamer.finished
  pushed,            \* history: the fragments put on the queue
  nStreams,          \* number of chat_streaming calls made
  config,            \* TextPreprocessor.config (DataProcessingConfig)
  p_op,              \* the TextPreprocessor method applied last
  p_in,              \* the argument it was applied to
  p_out,             \* what it returned
  t_pc,              \* where the current run_training call stands
  t_args,            \* its arguments: output_dir, experiment_name
  t_trace,           \* history: the stages this call has entered, in order
  t_result,          \* what the call returned, or that it raised
  fs,                \* the file system: what each model directory holds
  nRuns,             \* number of run_training calls made
  th,                \* per calling thread: the ModelManager call it is in and its locals
  training_jobs,     \* training.py: training_jobs, job_id -> job record
  j_pc,              \* per job: where its background thread stands
  last               \* history: the operation that ran last, its arguments and outcome

streamVars == <<s_pc, s_call, s_handle, s_gen, full_response, yielded,
                w_pc, w_feed, queue, finished, pushed, nStreams>>
storeVars == <<max_history, conversations, appended, nAppends>>
regVars   == <<models, default_model_id, nLoads, unloaded>>
prepVars  == <<config, p_op, p_in, p_out>>
trainVars == <<t_pc, t_args, t_trace, t_result, fs, nRuns>>
pipeVars  == <<config, p_op, p_in, p_out, t_pc, t_args, t_trace, t_result, fs, nRuns>>
threadVars == <<th, training_jobs, j_pc>>
vars      == <<max_history, conversations, appended, nAppends,
               models, default_model_id, nLoads, unloaded,
               s_pc, s_call, s_handle, s_gen, full_response, yielded,
               w_pc, w_feed, queue, finished, pushed, nStreams,
               config, p_op, p_in, p_out, t_pc, t_args, t_trace, t_result, fs, nRuns,
               th, training_jobs, j_pc,
               last>>

\* ------------------------------------------------------- Python helpers
Min(a, b) == IF a < b THEN a ELSE b
Max(a, b) == IF a > b THEN a ELSE b

\* lst[start:] for an integer start, as Python resolves slice starts:
\* a negative start counts from the end and is clamped at 0.
PySliceFrom(lst, start) ==
  LET n == Len(lst)
      s == IF start < 0 THEN Max(n + start, 0) ELSE Min(start, n)
  IN  SubSeq(lst, s + 1, n)

\* The last k elements of lst (k >= 0).
LastK(lst, k) == SubSeq(lst, Len(lst) - Min(k, Len(lst)) + 1, Len(lst))

Turn(role, content) == [role |-> role, content |-> content]

\* The ModelInference object built by the n-th load_model call, and the value
\* that stands for no such object.
Handle(path, n) == [path |-> path, serial |-> n]
NoHandle == [path |-> <<>>, serial |-> 0]

\* The record kept in `last`: the operation, the model_id argument it was given,
\* its conversation and message, its outcome ("ok" or the error raised), the text
\* it returned, the handle it stored or generated from, and the default model
\* id when it began.
Op(op, arg, conv, msg, result, out, handle, dflt) ==
  [op |-> op, arg |-> arg, conv |-> conv, msg |-> msg, result |-> result,
   out |-> out, handle |-> handle, dflt |-> dflt]
NoOp == Op("init", None, None, <<>>, None, <<>>, NoHandle, None)

\* -------------------------------------------------- ConversationManager
\* create_conversation: self.conversations[conversation_id] = []
create_conversation(convs, cid) ==
  [c \in DOMAIN convs \cup {cid} |-> IF c = cid THEN <<>> ELSE convs[c]]

\* A trim that keeps the oldest turns instead of the newest.
TrimHistoryKeepOldest(lst, mh) ==
  IF Len(lst) > mh * 2 THEN SubSeq(lst, 1, mh * 2) ELSE lst

\* The trim of add_message: lst[-self.max_history * 2:] when too long.
TrimHistory(lst, mh) ==
  IF Len(lst) > mh * 2 THEN PySliceFrom(lst, (0 - mh) * 2) ELSE lst

\* add_message: create on first use, append, trim.
add_message(convs, mh, cid, role, content) ==
  LET c1 == IF cid \notin DOMAIN convs THEN create_conversation(convs, cid) ELSE convs
  IN  [c1 EXCEPT ![cid] = TrimHistory(Append(c1[cid], Turn(role, content)), mh)]

\* role.title(), as one piece of text.
RoleTitle(role) == IF role = "user" THEN "User" ELSE "Assistant"

\* get_conversation_context: "" for an unknown id, else one line
\* "Role: content" per turn, the lines joined by a newline.
RECURSIVE ContextLines(_)
ContextLines(turns) ==
  IF turns = <<>> THEN <<>>
  ELSE <<RoleTitle(Head(turns).role), ":", " ">> \o Head(turns).content
         \o (IF Len(turns) > 1 THEN <<"\n">> ELSE <<>>) \o ContextLines(Tail(turns))
get_conversation_context(convs, cid) ==
  IF cid \notin DOMAIN convs THEN <<>> ELSE ContextLines(convs[cid])

\* A clear that removes the conversation.
ClearRemoves(convs, cid) ==
  [c \in DOMAIN convs \ {cid} |-> convs[c]]

\* clear_conversation: empties a known conversation, ignores an unknown id.
clear_conversation(convs, cid) ==
  IF cid \in DOMAIN convs THEN [convs EXCEPT ![cid] = <<>>] ELSE convs

\* History of what was appended, kept beside the store: the turns appended to
\* a conversation since it was last emptied, the last 2 * max_history + 1 of
\* them (the turns a full conversation holds and the one evicted last).
LogAppend(log, mh, cid, role, content) ==
  [log EXCEPT ![cid] = LastK(Append(@, Turn(role, content)), 2 * mh + 1)]
LogClear(log, cid) == [log EXCEPT ![cid] = <<>>]

StoreInit(mh) ==
  /\ max_history = mh
  /\ conversations = << >>
  /\ appended = [c \in ConvIds |-> <<>>]
  /\ nAppends = 0

\* ConversationManager.add_message called by a client of the store.
AddMessage(cid, role, content) ==
  /\ nAppends < MaxAppends
  /\ conversations' = add_message(conversations, max_history, cid, role, content)
  /\ appended' = LogAppend(appended, max_history, cid, role, content)
  /\ nAppends' = nAppends + 1
  /\ last' = Op("append", None, cid, content, "ok", <<>>, NoHandle, default_model_id)
  /\ UNCHANGED <<max_history, regVars, streamVars>>
  /\ UNCHANGED pipeVars
  /\ UNCHANGED threadVars

\* ConversationManager.clear_conversation / ModelManager.clear_conversation.
ClearConversation(cid) ==
  /\ conversations' = clear_conversation(conversations, cid)
  /\ appended' = LogClear(appended, cid)
  /\ last' = Op("clear", None, cid, <<>>, "ok", <<>>, NoHandle, default_model_id)
  /\ UNCHANGED <<max_history, nAppends, regVars, streamVars>>
  /\ UNCHANGED pipeVars
  /\ UNCHANGED threadVars

\* ConversationManager.get_conversation_context called by a client of the store.
GetConversationContext(cid) ==
  /\ last' = Op("context", None, cid, <<>>, "ok",
                get_conversation_context(conversations, cid), NoHandle, default_model_id)
  /\ UNCHANGED <<storeVars, regVars, streamVars>>
  /\ UNCHANGED pipeVars
  /\ UNCHANGED threadVars

\* ------------------------------------------------------- ModelInference
\* tokenizer.decode(ids, skip_special_tokens=True): the text of the tokens in
\* order, special tokens left out.
RECURSIVE Decode(_)
Decode(ids) ==
  IF ids = <<>> THEN <<>>
  ELSE (IF Head(ids) = EosToken THEN <<>> ELSE <<Head(ids)>>) \o Decode(Tail(ids))

IsSpace(ch) == ch = " "

\* str.strip(): leading and trailing whitespace removed.
RECURSIVE LStrip(_)
LStrip(text) ==
  IF text # <<>> /\ IsSpace(Head(text)) THEN LStrip(Tail(text)) ELSE text
RECURSIVE RStrip(_)
RStrip(text) ==
  IF text # <<>> /\ IsSpace(text[Len(text)])
  THEN RStrip(SubSeq(text, 1, Len(text) - 1)) ELSE text
Strip(text) == RStrip(LStrip(text))

\* What model.generate can return past the prompt with max_new_tokens =
\* MaxNewTokens: text tokens ended by the end-of-sequence token, or
\* MaxNewTokens text tokens.
RECURSIVE TextSeqs(_)
TextSeqs(n) ==
  IF n = 0 THEN {<<>>}
  ELSE {Append(b, t) : b \in TextSeqs(n - 1), t \in TextTokens}
Generations ==
  {Append(b, EosToken) : b \in UNION {TextSeqs(n) : n \in 0..(MaxNewTokens - 1)}}
    \cup TextSeqs(MaxNewTokens)

\* generate_response: the new tokens decoded as a whole, then stripped.
generate_response(ids) == Strip(Decode(ids))

\* --------------------------------------------------------- ModelManager
\* self.models is a dict: a list of [id, handle] in insertion order.
DictKeys(d) == {d[i].id : i \in 1..Len(d)}
DictGet(d, k) == (CHOOSE i \in 1..Len(d) : d[i].id = k)
DictValue(d, k) == d[DictGet(d, k)].handle
\* d[k] = v: a known key keeps its place, a new key goes last.
DictPut(d, k, v) ==
  IF k \in DictKeys(d)
  THEN [d EXCEPT ![DictGet(d, k)] = [id |-> k, handle |-> v]]
  ELSE Append(d, [id |-> k, handle |-> v])
\* del d[k]
DictDel(d, k) == SelectSeq(d, LAMBDA e : e.id # k)
\* next(iter(d.keys()))
DictFirstKey(d) == d[1].id

\* Path(model_path).name: the last segment.
PathName(path) == path[Len(path)]


RegInit ==
  /\ models = <<>>
  /\ default_model_id = None
  /\ nLoads = 0
  /\ unloaded = {}

\* A load that always takes over the default.
DefaultAfterLoadLastWins(dflt, model_id) == model_id

\* The default after a successful load: set only when there is none.
DefaultAfterLoad(dflt, model_id) == IF dflt = None THEN model_id ELSE dflt

\* A load that drops the entry it could not replace.
LoadModelDropsOnFailure(path, idarg, ok) ==
  LET model_id == IF idarg = None THEN PathName(path) ELSE idarg IN
  /\ nLoads < MaxLoads
  /\ nLoads' = nLoads + 1
  /\ IF ok
     THEN /\ models' = DictPut(models, model_id, Handle(path, nLoads + 1))
          /\ default_model_id' = DefaultAfterLoad(default_model_id, model_id)
          /\ last' = Op("load", model_id, None, <<>>, "ok", <<>>, Handle(path, nLoads + 1),
                        default_model_id)
     ELSE /\ models' = DictDel(models, model_id)
          /\ UNCHANGED default_model_id
          /\ last' = Op("load", model_id, None, <<>>, "ModelInferenceError", <<>>, NoHandle,
                        default_model_id)
  /\ UNCHANGED <<unloaded, storeVars, streamVars>>
  /\ UNCHANGED pipeVars
  /\ UNCHANGED threadVars

\* load_model(model_path, model_id): ok is whether ModelInference(model_path)
\* could be constructed; when it raises, load_model re-raises before storing.
LoadModel(path, idarg, ok) ==
  LET model_id == IF idarg = None THEN PathName(path) ELSE idarg IN
  /\ nLoads < MaxLoads
  /\ nLoads' = nLoads + 1
  /\ IF ok
     THEN /\ models' = DictPut(models, model_id, Handle(path, nLoads + 1))
          /\ default_model_id' = DefaultAfterLoad(default_model_id, model_id)
          /\ last' = Op("load", model_id, None, <<>>, "ok", <<>>, Handle(path, nLoads + 1),
                        default_model_id)
     ELSE /\ UNCHANGED <<models, default_model_id>>
          /\ last' = Op("load", model_id, None, <<>>, "ModelInferenceError", <<>>, NoHandle,
                        default_model_id)
  /\ UNCHANGED <<unloaded, storeVars, streamVars>>
  /\ UNCHANGED pipeVars
  /\ UNCHANGED threadVars

\* An unload that never touches the default.
DefaultAfterUnloadStale(dflt, model_id, rest) == dflt

\* The default after unloading model_id from a dict that is now `rest`.
DefaultAfterUnload(dflt, model_id, rest) ==
  IF dflt = model_id
  THEN (IF rest # <<>> THEN DictFirstKey(rest) ELSE None)
  ELSE dflt

\* unload_model(model_id): an id that is not loaded is ignored.
UnloadModel(model_id) ==
  /\ IF model_id \in DictKeys(models)
     THEN /\ models' = DictDel(models, model_id)
          /\ default_model_id' =
               DefaultAfterUnload(default_model_id, model_id, DictDel(models, model_id))
          /\ unloaded' = unloaded \cup {DictValue(models, model_id)}
     ELSE UNCHANGED <<models, default_model_id, unloaded>>
  /\ last' = Op("unload", model_id, None, <<>>, "ok", <<>>, NoHandle, default_model_id)
  /\ UNCHANGED <<nLoads, storeVars, streamVars>>
  /\ UNCHANGED pipeVars
  /\ UNCHANGED threadVars

\* set_default_model(model_id)
SetDefaultModel(model_id) ==
  /\ IF model_id \notin DictKeys(models)
     THEN /\ UNCHANGED default_model_id
          /\ last' = Op("set_default", model_id, None, <<>>, "ValueError", <<>>, NoHandle,
                        default_model_id)
     ELSE /\ default_model_id' = model_id
          /\ last' = Op("set_default", model_id, None, <<>>, "ok", <<>>, NoHandle, default_model_id)
  /\ UNCHANGED <<models, nLoads, unloaded, storeVars, streamVars>>
  /\ UNCHANGED pipeVars
  /\ UNCHANGED threadVars

\* A resolution that falls back to the default for an id that is not loaded.
ResolveModelFallback(idarg, dflt) ==
  IF idarg # None /\ idarg \in DictKeys(models) THEN idarg ELSE dflt

\* The model id a chat call works with: the default when none is given.
ResolveModel(idarg, dflt) == IF idarg = None THEN dflt ELSE idarg

\* Whether chat can run on the resolved id.
ModelAvailable(model_id, d) == model_id # None /\ model_id \in DictKeys(d)

\* The two appends in the wrong order.
RecordExchangeSwapped(convs, mh, cid, message, response) ==
  add_message(add_message(convs, mh, cid, "assistant", response),
              mh, cid, "user", message)

\* The two appends that end chat and chat_streaming.
RecordExchange(convs, mh, cid, message, response) ==
  add_message(add_message(convs, mh, cid, "user", message),
              mh, cid, "assistant", response)

\* A chat that records the user turn before it generates.
ChatRecordsUserFirst(message, cid, idarg, ok, gen) ==
  LET model_id == ResolveModel(idarg, default_model_id) IN
  /\ IF ~ModelAvailable(model_id, models)
     THEN /\ UNCHANGED <<conversations, appended>>
          /\ last' = Op("chat", idarg, cid, message, "ValueError", <<>>, NoHandle,
                        default_model_id)
     ELSE IF ~ok
     THEN /\ conversations' = add_message(conversations, max_history, cid, "user", message)
          /\ appended' = LogAppend(appended, max_history, cid, "user", message)
          /\ last' = Op("chat", idarg, cid, message, "ModelInferenceError", <<>>,
                        DictValue(models, model_id), default_model_id)
     ELSE /\ conversations' = RecordExchange(conversations, max_history, cid,
                                             message, generate_response(gen))
          /\ appended' = LogAppend(LogAppend(appended, max_history, cid, "user", message),
                                   max_history, cid, "assistant", generate_response(gen))
          /\ last' = Op("chat", idarg, cid, message, "ok", generate_response(gen),
                        DictValue(models, model_id), default_model_id)
  /\ UNCHANGED <<max_history, nAppends, regVars, streamVars>>
  /\ UNCHANGED pipeVars
  /\ UNCHANGED threadVars

\* chat(message, conversation_id, model_id): gen is what the model generates;
\* ok is FALSE when tokenization or generation raises instead.
Chat(message, cid, idarg, ok, gen) ==
  LET model_id == ResolveModel(idarg, default_model_id) IN
  /\ IF ~ModelAvailable(model_id, models)
     THEN /\ UNCHANGED <<conversations, appended>>
          /\ last' = Op("chat", idarg, cid, message, "ValueError", <<>>, NoHandle,
                        default_model_id)
     ELSE IF ~ok
     THEN /\ UNCHANGED <<conversations, appended>>
          /\ last' = Op("chat", idarg, cid, message, "ModelInferenceError", <<>>,
                        DictValue(models, model_id), default_model_id)
     ELSE /\ conversations' = RecordExchange(conversations, max_history, cid,
                                             message, generate_response(gen))
          /\ appended' = LogAppend(LogAppend(appended, max_history, cid, "user", message),
                                   max_history, cid, "assistant", generate_response(gen))
          /\ last' = Op("chat", idarg, cid, message, "ok", generate_response(gen),
                        DictValue(models, model_id), default_model_id)
  /\ UNCHANGED <<max_history, nAppends, regVars, streamVars>>
  /\ UNCHANGED pipeVars
  /\ UNCHANGED threadVars

\* ------------------------------------------- streaming: chat_streaming,
\* generate_streaming_response, CustomStreamer and the generation thread
NoCall == [msg |-> <<>>, conv |-> None, arg |-> None]

StreamInit ==
  /\ s_pc = "none"
  /\ s_call = NoCall
  /\ s_handle = NoHandle
  /\ s_gen = <<>>
  /\ full_response = <<>>
  /\ yielded = <<>>
  /\ w_pc = "none"
  /\ w_feed = <<>>
  /\ queue = <<>>
  /\ finished = FALSE
  /\ pushed = <<>>
  /\ nStreams = 0

\* What the queue holds: a decoded token, or the None that ends the sequence.
Fragment(text) == [frag |-> text, end |-> FALSE]
EndMark == [frag |-> <<>>, end |-> TRUE]

\* The text of a list of fragments, joined.
RECURSIVE Concat(_)
Concat(frags) == IF frags = <<>> THEN <<>> ELSE Head(frags) \o Concat(Tail(frags))

\* The values model.generate hands to streamer.put: the prompt ids first
\* (several ids), then each new token alone.
RECURSIVE Singles(_)
Singles(ids) == IF ids = <<>> THEN <<>> ELSE <<(<<Head(ids)>>)>> \o Singles(Tail(ids))
PromptIds == <<"User", ":">>
Feed(ids) == <<PromptIds>> \o Singles(ids)

\* CustomStreamer.put(value): a single token that is not the end-of-sequence
\* token is decoded on its own and queued; anything else is ignored.
streamer_put(q, value) ==
  IF Len(value) = 1 /\ value[Len(value)] # EosToken
  THEN Append(q, Fragment(Decode(<<value[Len(value)]>>)))
  ELSE q

\* What `last` holds after a step of the generation thread or a step inside a
\* pull that ends no call.
ThreadStep == Op("step", None, None, <<>>, None, <<>>, NoHandle, None)

\* What `last` holds after the step that ends a chat_streaming call.
StreamEnd(op, result, out) ==
  Op(op, s_call.arg, s_call.conv, s_call.msg, result, out, s_handle, None)

\* chat_streaming(message, conversation_id, model_id) is called: a generator
\* object is made and none of the body runs.  One call is followed at a time.
StreamCall(message, cid, idarg) ==
  /\ nStreams < MaxStreams
  /\ s_pc \in {"none", "done", "failed", "closed"}
  /\ w_pc \in {"none", "exit", "dead"}
  /\ nStreams' = nStreams + 1
  /\ s_pc' = "created"
  /\ s_call' = [msg |-> message, conv |-> cid, arg |-> idarg]
  /\ s_handle' = NoHandle
  /\ s_gen' = <<>>
  /\ full_response' = <<>>
  /\ yielded' = <<>>
  /\ w_pc' = "none"
  /\ w_feed' = <<>>
  /\ queue' = <<>>
  /\ finished' = FALSE
  /\ pushed' = <<>>
  /\ last' = Op("stream_call", idarg, cid, message, "ok", <<>>, NoHandle, default_model_id)
  /\ UNCHANGED <<storeVars, regVars>>
  /\ UNCHANGED pipeVars
  /\ UNCHANGED threadVars

\* The first pull runs the body up to the first queue.get: the model is
\* resolved, the context read, the prompt tokenized (ok is FALSE when that
\* raises) and the generation thread started; gen is what the model generates.
StreamFirstPull(ok, gen) ==
  LET model_id == ResolveModel(s_call.arg, default_model_id) IN
  /\ s_pc = "created"
  /\ IF ~ModelAvailable(model_id, models)
     THEN /\ s_pc' = "failed"
          /\ last' = Op("stream_start", s_call.arg, s_call.conv, s_call.msg,
                        "ValueError", <<>>, NoHandle, default_model_id)
          /\ UNCHANGED <<s_handle, s_gen, w_pc, w_feed>>
     ELSE IF ~ok
     THEN /\ s_pc' = "failed"
          /\ s_handle' = DictValue(models, model_id)
          /\ last' = Op("stream_start", s_call.arg, s_call.conv, s_call.msg,
                        "ModelInferenceError", <<>>, DictValue(models, model_id),
                        default_model_id)
          /\ UNCHANGED <<s_gen, w_pc, w_feed>>
     ELSE /\ s_pc' = "get"
          /\ s_handle' = DictValue(models, model_id)
          /\ s_gen' = gen
          /\ w_pc' = "run"
          /\ w_feed' = Feed(gen)
          /\ last' = Op("stream_start", s_call.arg, s_call.conv, s_call.msg,
                        "ok", <<>>, DictValue(models, model_id), default_model_id)
  /\ UNCHANGED <<s_call, full_response, yielded, queue, finished, pushed, nStreams,
                 storeVars, regVars>>
  /\ UNCHANGED pipeVars
  /\ UNCHANGED threadVars

\* The generation thread: model.generate hands the next value to streamer.put.
WorkerPut ==
  /\ w_pc = "run"
  /\ w_feed # <<>>
  /\ queue' = streamer_put(queue, Head(w_feed))
  /\ pushed' = pushed \o
       [i \in 1..(Len(streamer_put(<<>>, Head(w_feed)))) |->
          streamer_put(<<>>, Head(w_feed))[i].frag]
  /\ w_feed' = Tail(w_feed)
  /\ last' = ThreadStep
  /\ UNCHANGED <<s_pc, s_call, s_handle, s_gen, full_response, yielded, w_pc,
                 finished, nStreams, storeVars, regVars>>
  /\ UNCHANGED pipeVars
  /\ UNCHANGED threadVars

\* model.generate raises inside the thread: the thread ends, end() is not called.
WorkerDie ==
  /\ w_pc = "run"
  /\ w_pc' = "dead"
  /\ last' = ThreadStep
  /\ UNCHANGED <<s_pc, s_call, s_handle, s_gen, full_response, yielded, w_feed,
                 queue, finished, pushed, nStreams, storeVars, regVars>>
  /\ UNCHANGED pipeVars
  /\ UNCHANGED threadVars

\* streamer.end(), first statement: self.queue.put(None)
WorkerEndPut ==
  /\ w_pc = "run"
  /\ w_feed = <<>>
  /\ queue' = Append(queue, EndMark)
  /\ w_pc' = "ending"
  /\ last' = ThreadStep
  /\ UNCHANGED <<s_pc, s_call, s_handle, s_gen, full_response, yielded, w_feed,
                 finished, pushed, nStreams, storeVars, regVars>>
  /\ UNCHANGED pipeVars
  /\ UNCHANGED threadVars

\* streamer.end(), second statement: self.finished = True; the thread returns.
WorkerEndFlag ==
  /\ w_pc = "ending"
  /\ finished' = TRUE
  /\ w_pc' = "exit"
  /\ last' = ThreadStep
  /\ UNCHANGED <<s_pc, s_call, s_handle, s_gen, full_response, yielded, w_feed,
                 queue, pushed, nStreams, storeVars, regVars>>
  /\ UNCHANGED pipeVars
  /\ UNCHANGED threadVars

\* full_response += token that keeps the last token only.
AccumulateLastOnly(full, token) == token

\* full_response += token
Accumulate(full, token) == full \o token

\* __next__: queue.get(timeout=1.0) returns an item.  None ends the sequence;
\* a token is added to full_response and yielded.
ConsumerGet ==
  /\ s_pc = "get"
  /\ queue # <<>>
  /\ queue' = Tail(queue)
  /\ IF Head(queue).end
     THEN /\ s_pc' = "join"
          /\ UNCHANGED <<full_response, yielded>>
          /\ last' = ThreadStep
     ELSE /\ s_pc' = "yield"
          /\ full_response' = Accumulate(full_response, Head(queue).frag)
          /\ yielded' = Append(yielded, Head(queue).frag)
          /\ last' = ThreadStep
  /\ UNCHANGED <<s_call, s_handle, s_gen, w_pc, w_feed, finished, pushed, nStreams,
                 storeVars, regVars>>
  /\ UNCHANGED pipeVars
  /\ UNCHANGED threadVars

\* __next__: queue.get(timeout=1.0) finds the queue empty for a second and
\* raises Empty.
ConsumerTimeout ==
  /\ s_pc = "get"
  /\ queue = <<>>
  /\ s_pc' = "empty"
  /\ last' = ThreadStep
  /\ UNCHANGED <<s_call, s_handle, s_gen, full_response, yielded, w_pc, w_feed,
                 queue, finished, pushed, nStreams, storeVars, regVars>>
  /\ UNCHANGED pipeVars
  /\ UNCHANGED threadVars

\* __next__, except Empty: the sequence ends if finished is set, else retry.
ConsumerCheckFinished ==
  /\ s_pc = "empty"
  /\ s_pc' = IF finished THEN "join" ELSE "get"
  /\ last' = ThreadStep
  /\ UNCHANGED <<s_call, s_handle, s_gen, full_response, yielded, w_pc, w_feed,
                 queue, finished, pushed, nStreams, storeVars, regVars>>
  /\ UNCHANGED pipeVars
  /\ UNCHANGED threadVars

\* The sequence has ended: generation_thread.join() returns once the thread
\* has, and chat_streaming appends the two turns.
ConsumerJoin ==
  /\ s_pc = "join"
  /\ w_pc \in {"exit", "dead"}
  /\ s_pc' = "done"
  /\ conversations' = RecordExchange(conversations, max_history, s_call.conv,
                                     s_call.msg, full_response)
  /\ appended' = LogAppend(LogAppend(appended, max_history, s_call.conv, "user",
                                     s_call.msg),
                           max_history, s_call.conv, "assistant", full_response)
  /\ last' = StreamEnd("stream_done", "ok", full_response)
  /\ UNCHANGED <<s_call, s_handle, s_gen, full_response, yielded, w_pc, w_feed,
                 queue, finished, pushed, nStreams, max_history, nAppends, regVars>>
  /\ UNCHANGED pipeVars
  /\ UNCHANGED threadVars

\* The consumer asks for the next fragment: the generator resumes after yield.
ConsumerPull ==
  /\ s_pc = "yield"
  /\ s_pc' = "get"
  /\ last' = ThreadStep
  /\ UNCHANGED <<s_call, s_handle, s_gen, full_response, yielded, w_pc, w_feed,
                 queue, finished, pushed, nStreams, storeVars, regVars>>
  /\ UNCHANGED pipeVars
  /\ UNCHANGED threadVars

\* A close that also stops the generation thread.
ConsumerCloseStopsWorker ==
  /\ s_pc \in {"created", "yield"}
  /\ s_pc' = "closed"
  /\ w_pc' = IF w_pc \in {"run", "ending"} THEN "exit" ELSE w_pc
  /\ w_feed' = <<>>
  /\ last' = StreamEnd("stream_close", "closed", <<>>)
  /\ UNCHANGED <<s_call, s_handle, s_gen, full_response, yielded,
                 queue, finished, pushed, nStreams, storeVars, regVars>>
  /\ UNCHANGED pipeVars
  /\ UNCHANGED threadVars

\* The consumer stops pulling: the suspended generator is closed (GeneratorExit
\* at the yield, which no handler of the two generators catches).
ConsumerClose ==
  /\ s_pc \in {"created", "yield"}
  /\ s_pc' = "closed"
  /\ last' = StreamEnd("stream_close", "closed", <<>>)
  /\ UNCHANGED <<s_call, s_handle, s_gen, full_response, yielded, w_pc, w_feed,
                 queue, finished, pushed, nStreams, storeVars, regVars>>
  /\ UNCHANGED pipeVars
  /\ UNCHANGED threadVars

WorkerStep == WorkerPut \/ WorkerDie \/ WorkerEndPut \/ WorkerEndFlag
ConsumerStep == ConsumerGet \/ ConsumerTimeout \/ ConsumerCheckFinished \/ ConsumerJoin

\* ------------------------------- ModelManager calls, statement by statement
\* The threads that call into one ModelManager (the HTTP layer serves each
\* request on a thread of its own), and the locals of the call a thread is in.
Callers == {"t1", "t2"}
Idle ==
  [op |-> "none", pc |-> "idle", msg |-> <<>>, conv |-> None, arg |-> None,
   model_id |-> None, handle |-> NoHandle, context |-> <<>>, response |-> <<>>,
   role |-> None, content |-> <<>>, kept |-> <<>>, pick |-> None, calls |-> 0,
   raised |-> FALSE]

\* The thread state after the call has returned (result "ok") or raised.
Returned(t, result) == [Idle EXCEPT !.calls = th[t].calls, !.raised = (result # "ok")]

\* No thread is inside a call.
AllIdle == \A t \in Callers : th[t].op = "none"

\* A step of thread t that changes the conversation store.
StoreStep(t, frame, convs, log) ==
  /\ th' = [th EXCEPT ![t] = frame]
  /\ conversations' = convs
  /\ appended' = log
  /\ last' = ThreadStep
  /\ UNCHANGED <<max_history, nAppends, regVars, streamVars, pipeVars,
                 training_jobs, j_pc>>

\* A step of thread t that changes only its locals.
LocalStep(t, frame) == StoreStep(t, frame, conversations, appended)

\* Thread t leaves chat with the given outcome.
ChatEnds(t, result, out) ==
  /\ th' = [th EXCEPT ![t] = Returned(t, result)]
  /\ last' = Op("chat", th[t].arg, th[t].conv, th[t].msg, result, out, th[t].handle,
                default_model_id)
  /\ UNCHANGED <<storeVars, regVars, streamVars, pipeVars, training_jobs, j_pc>>

\* Thread t calls chat(message, conversation_id, model_id).
ChatBegin(t, message, cid, idarg) ==
  /\ th[t].op = "none"
  /\ th[t].calls < MaxCalls
  /\ LocalStep(t, [Idle EXCEPT !.op = "chat", !.pc = "resolve", !.msg = message,
                               !.conv = cid, !.arg = idarg, !.calls = th[t].calls + 1])

\* chat: the model id is resolved and looked up, or ValueError is raised.
ChatResolve(t) ==
  LET model_id == ResolveModel(th[t].arg, default_model_id) IN
  /\ th[t].pc = "resolve"
  /\ IF ~ModelAvailable(model_id, models)
     THEN ChatEnds(t, "ValueError", <<>>)
     ELSE LocalStep(t, [th[t] EXCEPT !.pc = "context", !.model_id = model_id,
                                      !.handle = DictValue(models, model_id)])

\* chat: context = self.conversation_manager.get_conversation_context(...)
ChatContext(t) ==
  /\ th[t].pc = "context"
  /\ LocalStep(t, [th[t] EXCEPT !.pc = "generate",
        !.context = get_conversation_context(conversations, th[t].conv)])

\* chat: response = model.generate_response(message, config, context); then
\* the first add_message call begins.
ChatGenerate(t, ok, gen) ==
  /\ th[t].pc = "generate"
  /\ IF ~ok
     THEN ChatEnds(t, "ModelInferenceError", <<>>)
     ELSE LocalStep(t, [th[t] EXCEPT !.pc = "add_check", !.response = generate_response(gen),
                                      !.role = "user", !.content = th[t].msg])

\* add_message: if conversation_id not in self.conversations
AddCheck(t) ==
  /\ th[t].pc = "add_check"
  /\ LocalStep(t, [th[t] EXCEPT !.pc = IF th[t].conv \notin DOMAIN conversations
                                        THEN "add_create" ELSE "add_append"])

\* add_message: self.create_conversation(conversation_id)
AddCreate(t) ==
  /\ th[t].pc = "add_create"
  /\ StoreStep(t, [th[t] EXCEPT !.pc = "add_append"],
               create_conversation(conversations, th[t].conv),
               appended)

\* add_message: self.conversations[conversation_id].append(message)
AddAppend(t) ==
  /\ th[t].pc = "add_append"
  /\ StoreStep(t, [th[t] EXCEPT !.pc = "add_len"],
               [conversations EXCEPT ![th[t].conv] = Append(@, Turn(th[t].role, th[t].content))],
               LogAppend(appended, max_history, th[t].conv, th[t].role, th[t].content))

\* A chat that returns after its first add_message call.
AddReturnsAfterUser(t) == ChatEnds(t, "ok", th[t].response)

\* Where thread t goes when an add_message call returns: to the second
\* add_message call, or out of chat with the response.
AddReturns(t) ==
  IF th[t].role = "user"
  THEN LocalStep(t, [th[t] EXCEPT !.pc = "add_check", !.role = "assistant",
                                   !.content = th[t].response, !.kept = <<>>])
  ELSE ChatEnds(t, "ok", th[t].response)

\* add_message: if len(self.conversations[conversation_id]) > self.max_history * 2
AddLen(t) ==
  /\ th[t].pc = "add_len"
  /\ IF Len(conversations[th[t].conv]) > max_history * 2
     THEN LocalStep(t, [th[t] EXCEPT !.pc = "add_slice"])
     ELSE AddReturns(t)

\* add_message: the right-hand side self.conversations[...][-self.max_history * 2:]
AddSlice(t) ==
  /\ th[t].pc = "add_slice"
  /\ LocalStep(t, [th[t] EXCEPT !.pc = "add_assign",
        !.kept = PySliceFrom(conversations[th[t].conv], (0 - max_history) * 2)])

\* add_message: the assignment of the slice; add_message returns.
AddAssign(t) ==
  /\ th[t].pc = "add_assign"
  /\ conversations' = [conversations EXCEPT ![th[t].conv] = th[t].kept]
  /\ UNCHANGED <<appended, max_history, nAppends, regVars, streamVars, pipeVars,
                 training_jobs, j_pc>>
  /\ IF th[t].role = "user"
     THEN /\ th' = [th EXCEPT ![t] = [th[t] EXCEPT !.pc = "add_check", !.role = "assistant",
                                                   !.content = th[t].response, !.kept = <<>>]]
          /\ last' = ThreadStep
     ELSE /\ th' = [th EXCEPT ![t] = Returned(t, "ok")]
          /\ last' = Op("chat", th[t].arg, th[t].conv, th[t].msg, "ok", th[t].response,
                        th[t].handle, default_model_id)

\* The statements of a chat call of thread t past its beginning.
ChatStep(t) ==
  \/ ChatResolve(t)
  \/ ChatContext(t)
  \/ \E ok \in BOOLEAN : ChatGenerate(t, ok, <<"a", EosToken>>)
  \/ AddCheck(t)
  \/ AddCreate(t)
  \/ AddAppend(t)
  \/ AddLen(t)
  \/ AddSlice(t)
  \/ AddAssign(t)

\* A step of thread t inside unload_model that changes the registry.
RegistryStep(t, frame, d, dflt, gone) ==
  /\ th' = [th EXCEPT ![t] = frame]
  /\ models' = d
  /\ default_model_id' = dflt
  /\ unloaded' = gone
  /\ last' = ThreadStep
  /\ UNCHANGED <<nLoads, storeVars, streamVars, pipeVars, training_jobs, j_pc>>

\* Thread t leaves unload_model: it returns ("ok") or an exception leaves it.
UnloadEnds(t, result, dflt) ==
  /\ th' = [th EXCEPT ![t] = Returned(t, result)]
  /\ default_model_id' = dflt
  /\ last' = Op("unload", th[t].arg, None, <<>>, result, <<>>, NoHandle, default_model_id)
  /\ UNCHANGED <<models, nLoads, unloaded, storeVars, streamVars, pipeVars,
                 training_jobs, j_pc>>

\* Thread t calls unload_model(model_id).
UnloadBegin(t, model_id) ==
  /\ th[t].op = "none"
  /\ th[t].calls < MaxCalls
  /\ RegistryStep(t, [Idle EXCEPT !.op = "unload", !.pc = "u_check", !.arg = model_id,
                                  !.calls = th[t].calls + 1],
                  models, default_model_id, unloaded)

\* unload_model: if model_id in self.models
UnloadCheck(t) ==
  /\ th[t].pc = "u_check"
  /\ IF th[t].arg \in DictKeys(models)
     THEN RegistryStep(t, [th[t] EXCEPT !.pc = "u_del"], models, default_model_id, unloaded)
     ELSE UnloadEnds(t, "ok", default_model_id)

\* unload_model: del self.models[model_id]
UnloadDel(t) ==
  /\ th[t].pc = "u_del"
  /\ IF th[t].arg \in DictKeys(models)
     THEN RegistryStep(t, [th[t] EXCEPT !.pc = "u_default"], DictDel(models, th[t].arg),
                       default_model_id, unloaded \cup {DictValue(models, th[t].arg)})
     ELSE UnloadEnds(t, "KeyError", default_model_id)

\* unload_model: if self.default_model_id == model_id
UnloadDefaultCheck(t) ==
  /\ th[t].pc = "u_default"
  /\ IF default_model_id = th[t].arg
     THEN RegistryStep(t, [th[t] EXCEPT !.pc = "u_truth"], models, default_model_id, unloaded)
     ELSE UnloadEnds(t, "ok", default_model_id)

\* unload_model: the condition of `... if self.models else None`
UnloadTruth(t) ==
  /\ th[t].pc = "u_truth"
  /\ RegistryStep(t, [th[t] EXCEPT !.pc = IF models # <<>> THEN "u_next" ELSE "u_assign",
                                   !.pick = None],
                  models, default_model_id, unloaded)

\* unload_model: next(iter(self.models.keys())), StopIteration on an empty dict
UnloadNextKey(t) ==
  /\ th[t].pc = "u_next"
  /\ IF models # <<>>
     THEN RegistryStep(t, [th[t] EXCEPT !.pc = "u_assign", !.pick = DictFirstKey(models)],
                       models, default_model_id, unloaded)
     ELSE UnloadEnds(t, "StopIteration", default_model_id)

\* unload_model: self.default_model_id = ...; the call returns.
UnloadAssign(t) ==
  /\ th[t].pc = "u_assign"
  /\ UnloadEnds(t, "ok", th[t].pick)

\* The statements of an unload_model call of thread t past its beginning.
UnloadStep(t) ==
  \/ UnloadCheck(t)
  \/ UnloadDel(t)
  \/ UnloadDefaultCheck(t)
  \/ UnloadTruth(t)
  \/ UnloadNextKey(t)
  \/ UnloadAssign(t)

ThreadInit ==
  /\ th = [t \in Callers |-> Idle]
  /\ training_jobs = << >>
  /\ j_pc = << >>

\* ------------------------------------------------ training jobs (src/training.py)
\* training_jobs maps a job id to its record; j_pc holds, per job id, the
\* position of the background thread that start_training started for it.
\* A job id is train_<user_id>_<time to the second>: the pair of the user
\* and the second.  Of a record the fields the handlers and the thread test
\* or rewrite are kept: user_id, status, created_at, progress and error.
\* Two starts of one user fall in different seconds.
JobUsers == {"u1", "u2"}
JobSeconds == 1..MaxJobs
JobId(user_id, now) == <<user_id, now>>
JobIds == JobUsers \X JobSeconds
JobStatuses == {"queued", "running", "completed", "failed", "cancelled"}
TerminalStatuses == {"completed", "failed", "cancelled"}

\* The job record of start_training.
NewJob(user_id, now) ==
  [user_id |-> user_id, status |-> "queued", created_at |-> now,
   progress |-> 0, error |-> None]

JobStep(jobs, pcs, result) ==
  /\ training_jobs' = jobs
  /\ j_pc' = pcs
  /\ last' = result
  /\ UNCHANGED <<storeVars, regVars, streamVars, pipeVars, th>>

JobReply(op, job_id, code) == Op(op, job_id, None, <<>>, code, <<>>, NoHandle, None)

\* start_training: 400 when a data file does not exist; otherwise the job is
\* recorded as queued and its daemon thread is started.
StartTraining(user_id, now, files_exist) ==
  /\ Cardinality(DOMAIN training_jobs) < MaxJobs
  /\ JobId(user_id, now) \notin DOMAIN training_jobs
  /\ \A j \in DOMAIN training_jobs : training_jobs[j].created_at <= now
  /\ IF ~files_exist
     THEN JobStep(training_jobs, j_pc, JobReply("start_training", None, "400"))
     ELSE LET job_id == JobId(user_id, now)
          IN  JobStep((job_id :> NewJob(user_id, now)) @@ training_jobs,
                      (job_id :> "import") @@ j_pc,
                      JobReply("start_training", job_id, "200"))

\* The except branch of _run_training_job.
JobExcept(job_id) ==
  JobStep([training_jobs EXCEPT ![job_id].status = "failed", ![job_id].error = "e"],
          [j_pc EXCEPT ![job_id] = "exited"], last)

\* _run_training_job up to job['status'] = 'running': the imports, which may
\* raise, then the status is written whatever it was.
JobBegin(job_id, imported) ==
  /\ job_id \in DOMAIN j_pc
  /\ j_pc[job_id] = "import"
  /\ IF imported
     THEN JobStep([training_jobs EXCEPT ![job_id].status = "running"],
                  [j_pc EXCEPT ![job_id] = "configure"], last)
     ELSE JobExcept(job_id)

\* _run_training_job: the configs and TrainingPipeline(...), then progress = 10.
JobConfigure(job_id, built) ==
  /\ job_id \in DOMAIN j_pc
  /\ j_pc[job_id] = "configure"
  /\ IF built
     THEN JobStep([training_jobs EXCEPT ![job_id].progress = 10],
                  [j_pc EXCEPT ![job_id] = "train"], last)
     ELSE JobExcept(job_id)

\* _run_training_job: pipeline.run_training(...) returns its result, or the
\* call raises; the status is written without reading it.
JobTrain(job_id, outcome) ==
  /\ job_id \in DOMAIN j_pc
  /\ j_pc[job_id] = "train"
  /\ CASE outcome = "success" ->
            JobStep([training_jobs EXCEPT ![job_id].status = "completed",
                                          ![job_id].progress = 100],
                    [j_pc EXCEPT ![job_id] = "exited"], last)
       [] outcome = "failure" ->
            JobStep([training_jobs EXCEPT ![job_id].status = "failed",
                                          ![job_id].error = "e"],
                    [j_pc EXCEPT ![job_id] = "exited"], last)
       [] OTHER -> JobExcept(job_id)

\* cancel_training_job: 404, 403, 400 on a terminal status, else cancelled.
CancelTrainingJob(job_id, user_id) ==
  CASE job_id \notin DOMAIN training_jobs ->
         JobStep(training_jobs, j_pc, JobReply("cancel_training_job", job_id, "404"))
    [] training_jobs[job_id].user_id # user_id ->
         JobStep(training_jobs, j_pc, JobReply("cancel_training_job", job_id, "403"))
    [] training_jobs[job_id].status \in TerminalStatuses ->
         JobStep(training_jobs, j_pc, JobReply("cancel_training_job", job_id, "400"))
    [] OTHER ->
         JobStep([training_jobs EXCEPT ![job_id].status = "cancelled"], j_pc,
                 JobReply("cancel_training_job", job_id, "200"))

\* ----------------------------------------------- Python float arithmetic
\* A non-negative float is its IEEE-754 double: man is the significand as a
\* list of bits, most significant first and without leading zeros, and the
\* value is man * 2^exp.
HexBits(h) == <<h \div 8, (h \div 4) % 2, (h \div 2) % 2, h % 2>>

RECURSIVE HexToBits(_)
HexToBits(hs) == IF hs = <<>> THEN <<>> ELSE HexBits(Head(hs)) \o HexToBits(Tail(hs))

\* The same value written without trailing zero bits.
DNorm(bits, e) ==
  IF \A i \in 1..Len(bits) : bits[i] = 0 THEN [man |-> <<>>, exp |-> 0]
  ELSE LET k == CHOOSE i \in 1..Len(bits) :
                  bits[i] = 1 /\ \A j \in (i + 1)..Len(bits) : bits[j] = 0
       IN  [man |-> SubSeq(bits, 1, k), exp |-> e + (Len(bits) - k)]

\* The double with fraction digits hs (13 hexadecimal digits) and exponent e.
Double(hs, e) == DNorm(<<1>> \o HexToBits(hs), e - 52)
DZero == [man |-> <<>>, exp |-> 0]
DOne  == [man |-> <<1>>, exp |-> 0]

Zeros(k) == [i \in 1..k |-> 0]
Rev(bits) == [i \in 1..Len(bits) |-> bits[Len(bits) + 1 - i]]
PadTo(bits, n) == Zeros(n - Len(bits)) \o bits

RECURSIVE StripZeros(_)
StripZeros(bits) ==
  IF bits # <<>> /\ Head(bits) = 0 THEN StripZeros(Tail(bits)) ELSE bits

\* Whether adding (subtracting) equally long lists of bits, least significant
\* first, carries into (borrows from) position i.
Carry(a, b, i) ==
  \E j \in 1..(i - 1) : a[j] + b[j] = 2 /\ \A k \in (j + 1)..(i - 1) : a[k] + b[k] >= 1

Borrow(a, b, i) ==
  \E j \in 1..(i - 1) : a[j] < b[j] /\ \A k \in (j + 1)..(i - 1) : a[k] <= b[k]

AddLsb(a, b) ==
  [i \in 1..(Len(a) + 1) |->
     IF i <= Len(a) THEN (a[i] + b[i] + (IF Carry(a, b, i) THEN 1 ELSE 0)) % 2
     ELSE IF Carry(a, b, i) THEN 1 ELSE 0]

SubLsb(a, b) ==
  [i \in 1..Len(a) |-> (a[i] - b[i] - (IF Borrow(a, b, i) THEN 1 ELSE 0) + 2) % 2]

AddBits(a, b) ==
  LET n == Max(Len(a), Len(b))
  IN  StripZeros(Rev(AddLsb(Rev(PadTo(a, n)), Rev(PadTo(b, n)))))

\* a - b for a >= b
SubBits(a, b) ==
  LET n == Max(Len(a), Len(b))
  IN  StripZeros(Rev(SubLsb(Rev(PadTo(a, n)), Rev(PadTo(b, n)))))

RECURSIVE MulNat(_, _)
MulNat(bits, n) ==
  IF n = 0 \/ bits = <<>> THEN <<>>
  ELSE IF n = 1 THEN bits
  ELSE IF n % 2 = 0 THEN MulNat(bits, n \div 2) \o <<0>>
  ELSE AddBits(bits, MulNat(bits, n \div 2) \o <<0>>)

RECURSIVE BitsToNat(_)
BitsToNat(bits) ==
  IF bits = <<>> THEN 0
  ELSE 2 * BitsToNat(SubSeq(bits, 1, Len(bits) - 1)) + bits[Len(bits)]

\* Rounding to the 53 bits of a double, to nearest, ties to even.
Round53(bits, e) ==
  LET b == StripZeros(bits)
      n == Len(b)
  IN  IF n <= 53 THEN DNorm(b, e)
      ELSE LET keep == SubSeq(b, 1, 53)
               rest == SubSeq(b, 54, n)
               up   == /\ rest[1] = 1
                       /\ \/ \E i \in 2..Len(rest) : rest[i] = 1
                          \/ keep[53] = 1
           IN  DNorm(IF up THEN AddBits(keep, <<1>>) ELSE keep, e + (n - 53))

\* 1 - d for a float 0 <= d <= 1
DOneMinus(d) ==
  IF d.man = <<>> THEN DOne
  ELSE Round53(SubBits(<<1>> \o Zeros(0 - d.exp), d.man), d.exp)

\* n * d for an int n >= 0 and a float d
DTimes(n, d) == Round53(MulNat(d.man, n), d.exp)

\* int(d): the integer part
DInt(d) ==
  IF d.exp >= 0 THEN BitsToNat(d.man \o Zeros(d.exp))
  ELSE IF Len(d.man) + d.exp <= 0 THEN 0
  ELSE BitsToNat(SubSeq(d.man, 1, Len(d.man) + d.exp))

\* The floats that configurations use; a configuration holds a float by the
\* literal it was written as.
F_0_1 == Double(<<9, 9, 9, 9, 9, 9, 9, 9, 9, 9, 9, 9, 10>>, 0 - 4)
F_0_2 == Double(<<9, 9, 9, 9, 9, 9, 9, 9, 9, 9, 9, 9, 10>>, 0 - 3)
F_0_5 == Double(<<0, 0, 0, 0, 0, 0, 0, 0, 0, 0, 0, 0, 0>>, 0 - 1)
F_0_8 == Double(<<9, 9, 9, 9, 9, 9, 9, 9, 9, 9, 9, 9, 10>>, 0 - 1)
FloatLiterals == {"0.0", "0.1", "0.2", "0.5", "0.8"}
Float(lit) ==
  CASE lit = "0.0" -> DZero
    [] lit = "0.1" -> F_0_1
    [] lit = "0.2" -> F_0_2
    [] lit = "0.5" -> F_0_5
    [] lit = "0.8" -> F_0_8

\* --------------------------------------------------------- DataProcessor
\* DataProcessingConfig(): the defaults.
DefaultConfig ==
  [max_length |-> 512, min_length |-> 10, overlap_ratio |-> "0.1",
   chunk_size |-> 1000, validation_split |-> "0.1", remove_duplicates |-> TRUE,
   language_filter |-> "en"]

NoValue == [kind |-> "none"]

PrepInit ==
  /\ config = DefaultConfig
  /\ p_op = "none"
  /\ p_in = NoValue
  /\ p_out = NoValue

\* The characters of the texts given to clean_text.
CleanChars == {"a", " ", "\n", "#", "@"}
TextsUpTo(n) == UNION {[1..k -> CleanChars] : k \in 0..n}

\* \s, \w and the punctuation the second substitution of clean_text keeps.
IsWs(ch) == ch \in {" ", "\n", "\t"}
WordChars == {"a", "b", "c", "h", "p", "s", "t", "x", "0", "1", "_"}
KeptPunctuation ==
  {".", ",", "!", "?", ";", ":", "-", "(", ")", "[", "]", "{", "}", "\"", "'"}

\* The characters after the first position that is no white space.
RECURSIVE DropWs(_)
DropWs(text) == IF text # <<>> /\ IsWs(Head(text)) THEN DropWs(Tail(text)) ELSE text

\* re.sub(r'\s+', ' ', text)
RECURSIVE CollapseWs(_)
CollapseWs(text) ==
  IF text = <<>> THEN <<>>
  ELSE IF IsWs(Head(text)) THEN <<" ">> \o CollapseWs(DropWs(text))
  ELSE <<Head(text)>> \o CollapseWs(Tail(text))

\* re.sub(r'[^\w\s\.\,\!\?\;\:\-\(\)\[\]\{\}\"\']+', '', text)
RemoveDisallowed(text) ==
  SelectSeq(text, LAMBDA ch : ch \in WordChars \cup KeptPunctuation \/ IsWs(ch))

\* The two quote substitutions: each class holds the straight quote only.
NormalizeQuotes(text) ==
  [i \in 1..Len(text) |->
     IF text[i] \in {"\""} THEN "\""
     ELSE IF text[i] \in {"'"} THEN "'"
     ELSE text[i]]

\* The characters the URL pattern accepts after the scheme: letters, digits,
\* the range $-_ and the listed punctuation.
UrlChars ==
  (WordChars \cup {"$", "%", "&", "'", "(", ")", "*", "+", ",", "-", ".", "/", ":", ";",
                   "<", "=", ">", "?", "@", "[", "\\", "]", "^", "!"})

\* Number of leading characters of text that are in set.
RECURSIVE RunLen(_, _)
RunLen(text, set) ==
  IF text # <<>> /\ Head(text) \in set THEN 1 + RunLen(Tail(text), set) ELSE 0

StartsWith(text, pre) == Len(text) >= Len(pre) /\ SubSeq(text, 1, Len(pre)) = pre

\* Length of the match of http[s]?://(...)+ at the start of text, 0 if none.
UrlMatchLen(text) ==
  LET k == IF StartsWith(text, <<"h", "t", "t", "p", "s", ":", "/", "/">>) THEN 8
           ELSE IF StartsWith(text, <<"h", "t", "t", "p", ":", "/", "/">>) THEN 7
           ELSE 0
      run == IF k = 0 THEN 0 ELSE RunLen(SubSeq(text, k + 1, Len(text)), UrlChars)
  IN  IF run = 0 THEN 0 ELSE k + run

\* re.sub(r'http[s]?://(...)+', '', text)
RECURSIVE RemoveUrls(_)
RemoveUrls(text) ==
  IF text = <<>> THEN <<>>
  ELSE IF UrlMatchLen(text) > 0
  THEN RemoveUrls(SubSeq(text, UrlMatchLen(text) + 1, Len(text)))
  ELSE <<Head(text)>> \o RemoveUrls(Tail(text))

\* Number of leading characters of text that are no white space.
RECURSIVE TokenLen(_)
TokenLen(text) ==
  IF text # <<>> /\ ~IsWs(Head(text)) THEN 1 + TokenLen(Tail(text)) ELSE 0

\* re.sub(r'\S+@\S+', '', text): a run of non-space characters with an @
\* that is neither its first nor its last character is removed whole.
RECURSIVE RemoveEmails(_)
RemoveEmails(text) ==
  IF text = <<>> THEN <<>>
  ELSE IF IsWs(Head(text)) THEN <<Head(text)>> \o RemoveEmails(Tail(text))
  ELSE LET n == TokenLen(text)
       IN  (IF \E j \in 2..(n - 1) : text[j] = "@" THEN <<>> ELSE SubSeq(text, 1, n))
             \o RemoveEmails(SubSeq(text, n + 1, Len(text)))

\* text.strip()
RECURSIVE RStripWs(_)
RStripWs(text) ==
  IF text # <<>> /\ IsWs(text[Len(text)]) THEN RStripWs(SubSeq(text, 1, Len(text) - 1))
  ELSE text
StripWs(text) == RStripWs(DropWs(text))

\* clean_text(text)
clean_text(text) ==
  StripWs(RemoveEmails(RemoveUrls(NormalizeQuotes(RemoveDisallowed(CollapseWs(text))))))

TextValue(text) == [kind |-> "text", text |-> text]

\* What `last` holds after a DataProcessor method ran.
PrepStep == Op("prep_step", None, None, <<>>, None, <<>>, NoHandle, None)

\* clean_text applied to the given text, and then to its own result.
CleanText ==
  /\ p_op \in {"given", "clean_text"}
  /\ p_out' = TextValue(clean_text(IF p_op = "given" THEN p_in.text ELSE p_out.text))
  /\ p_op' = IF p_op = "given" THEN "clean_text" ELSE "clean_text twice"
  /\ last' = PrepStep
  /\ UNCHANGED <<config, p_in, trainVars, storeVars, regVars, streamVars, threadVars>>

\* The characters of the texts given to chunk_text.
ChunkChars == {"a", "b", " "}
ChunkTexts == UNION {[1..k -> ChunkChars] : k \in 0..MaxChunkText}

\* text.split(): the maximal runs of characters that are no white space.
RECURSIVE Split(_)
Split(text) ==
  IF text = <<>> THEN <<>>
  ELSE IF IsWs(Head(text)) THEN Split(DropWs(text))
  ELSE <<SubSeq(text, 1, TokenLen(text))>>
         \o Split(SubSeq(text, TokenLen(text) + 1, Len(text)))

\* ' '.join(words)
RECURSIVE Join(_)
Join(words) ==
  IF words = <<>> THEN <<>>
  ELSE IF Len(words) = 1 THEN Head(words)
  ELSE Head(words) \o <<" ">> \o Join(Tail(words))

\* A window that is one word short.
WindowShort(words, i, chunk_size) ==
  SubSeq(words, i + 1, Min(i + chunk_size - 1, Len(words)))

\* words[i:i + chunk_size]
Window(words, i, chunk_size) ==
  SubSeq(words, i + 1, Min(i + chunk_size, Len(words)))

\* chunk_text(text, chunk_size) under configuration cfg
chunk_text(text, chunk_size, cfg) ==
  LET words == Split(text)
      overlap_size == DInt(DTimes(chunk_size, Float(cfg.overlap_ratio)))
      step == chunk_size - overlap_size
      count == (Len(words) + step - 1) \div step
      windows == [k \in 1..count |-> Join(Window(words, (k - 1) * step, chunk_size))]
  IN  SelectSeq(windows, LAMBDA chunk : Len(Split(chunk)) >= cfg.min_length)

ChunkArgs(text, chunk_size) == [kind |-> "chunk_args", text |-> text, chunk_size |-> chunk_size]
ChunksValue(chunks) == [kind |-> "chunks", chunks |-> chunks]

\* chunk_text applied to the given text and chunk size.
ChunkText ==
  /\ p_op = "given"
  /\ p_out' = ChunksValue(chunk_text(p_in.text, p_in.chunk_size, config))
  /\ p_op' = "chunk_text"
  /\ last' = PrepStep
  /\ UNCHANGED <<config, p_in, trainVars, storeVars, regVars, streamVars, threadVars>>

\* int(len(examples) * (1 - self.config.validation_split))
split_idx(n, validation_split) == DInt(DTimes(n, DOneMinus(Float(validation_split))))

ExamplesValue(examples) == [kind |-> "examples", examples |-> examples]
SplitValue(train, val) == [kind |-> "split", train |-> train, val |-> val]

\* process_data, from the examples create_training_examples returned (each
\* stands for itself, numbered in synthesis order): the train/validation split.
SplitExamples ==
  /\ p_op = "given"
  /\ p_out' = SplitValue(SubSeq(p_in.examples, 1,
                                split_idx(Len(p_in.examples), config.validation_split)),
                         SubSeq(p_in.examples,
                                split_idx(Len(p_in.examples), config.validation_split) + 1,
                                Len(p_in.examples)))
  /\ p_op' = "process_data"
  /\ last' = PrepStep
  /\ UNCHANGED <<config, p_in, trainVars, storeVars, regVars, streamVars, threadVars>>

\* The texts of the lists given to remove_duplicates.
DedupTexts ==
  {<<>>, <<" ">>, <<"a">>, <<"A">>, <<"b">>, <<"a", " ">>, <<" ", "a">>,
   <<"a", "b">>, <<"A", "B">>, <<"a", " ", "b">>}
DedupLists == UNION {[1..k -> DedupTexts] : k \in 0..MaxDedupTexts}

\* str.lower(), on the characters texts are made of.
LowerChar(c) == IF c = "A" THEN "a" ELSE IF c = "B" THEN "b" ELSE c
Lower(text) == [i \in 1..Len(text) |-> LowerChar(text[i])]

\* text.replace(' ', '')
RemoveSpaces(text) == SelectSeq(text, LAMBDA c : c # " ")

\* ord(c), on the characters texts are made of.
Ord(c) ==
  CASE c = " " -> 32
    [] c = "\n" -> 10
    [] c = "#" -> 35
    [] c = "." -> 46
    [] c = "@" -> 64
    [] c = "A" -> 65
    [] c = "B" -> 66
    [] c = "a" -> 97
    [] c = "b" -> 98

HashModulus == 2 ^ 24

\* A hash that tells texts apart by their length only.
RECURSIVE HashByLength(_)
HashByLength(key) ==
  IF key = <<>> THEN 0 ELSE (HashByLength(SubSeq(key, 1, Len(key) - 1)) + 1) % HashModulus

\* hash(key) of a str: a fixed-width number computed from the characters.
\* CPython keys the function per process and gives it 64 bits; what the model
\* keeps of it is that it is a function of the characters with a bounded
\* range, here a polynomial one of 24 bits, which tells apart all the keys of
\* DedupTexts.
RECURSIVE Hash(_)
Hash(key) ==
  IF key = <<>> THEN 0
  ELSE (Hash(SubSeq(key, 1, Len(key) - 1)) * 31 + Ord(key[Len(key)])) % HashModulus

\* text_hash = hash(text.lower().replace(' ', ''))
text_hash(text) == Hash(RemoveSpaces(Lower(text)))

\* remove_duplicates(texts) under configuration cfg: the loop over texts with
\* its unique_texts and seen_hashes.
RECURSIVE DedupLoop(_, _, _)
DedupLoop(texts, unique_texts, seen_hashes) ==
  IF texts = <<>> THEN unique_texts
  ELSE IF text_hash(Head(texts)) \notin seen_hashes
       THEN DedupLoop(Tail(texts), Append(unique_texts, Head(texts)),
                      seen_hashes \cup {text_hash(Head(texts))})
       ELSE DedupLoop(Tail(texts), unique_texts, seen_hashes)

remove_duplicates(texts, cfg) ==
  IF ~cfg.remove_duplicates THEN texts ELSE DedupLoop(texts, <<>>, {})

TextsValue(texts) == [kind |-> "texts", texts |-> texts]

\* remove_duplicates applied to the given list, and then to its own result.
RemoveDuplicates ==
  /\ p_op \in {"given", "remove_duplicates"}
  /\ p_in.kind = "texts"
  /\ p_out' = TextsValue(remove_duplicates(
                 IF p_op = "given" THEN p_in.texts ELSE p_out.texts, config))
  /\ p_op' = IF p_op = "given" THEN "remove_duplicates" ELSE "remove_duplicates twice"
  /\ last' = PrepStep
  /\ UNCHANGED <<config, p_in, trainVars, storeVars, regVars, streamVars, threadVars>>

\* A data file: its path, whether open() and read() succeed on it, and the
\* text they give.
DataFile(path, readable, content) ==
  [path |-> path, readable |-> readable, content |-> content]
DataFiles ==
  {DataFile("f1", TRUE, <<"a", ".", " ", "b">>),
   DataFile("f2", TRUE, <<"b", ".", " ", " ", "a", " ", "b">>),
   DataFile("f3", TRUE, <<"a">>),
   DataFile("f4", FALSE, <<>>)}
FileLists == UNION {[1..k -> DataFiles] : k \in 0..MaxFiles}

\* A load that stops at the first file it cannot read.
RECURSIVE LoadUntilUnreadable(_)
LoadUntilUnreadable(file_paths) ==
  IF file_paths = <<>> \/ ~Head(file_paths).readable THEN <<>>
  ELSE <<Head(file_paths).content>> \o LoadUntilUnreadable(Tail(file_paths))

\* load_text_files(file_paths): the content of a file is appended when open and
\* read succeed; otherwise the except clause logs and the loop goes on.
RECURSIVE load_text_files(_)
load_text_files(file_paths) ==
  IF file_paths = <<>> THEN <<>>
  ELSE (IF Head(file_paths).readable THEN <<Head(file_paths).content>> ELSE <<>>)
         \o load_text_files(Tail(file_paths))

\* chunk.split('. '): the pieces between the occurrences of '. ', taken from
\* the left.
RECURSIVE SplitSentences(_, _)
SplitSentences(chunk, piece) ==
  IF chunk = <<>> THEN <<piece>>
  ELSE IF StartsWith(chunk, <<".", " ">>)
       THEN <<piece>> \o SplitSentences(SubSeq(chunk, 3, Len(chunk)), <<>>)
       ELSE SplitSentences(Tail(chunk), Append(piece, Head(chunk)))

\* '. '.join(sentences)
RECURSIVE JoinSentences(_)
JoinSentences(sentences) ==
  IF sentences = <<>> THEN <<>>
  ELSE IF Len(sentences) = 1 THEN Head(sentences)
  ELSE Head(sentences) \o <<".", " ">> \o JoinSentences(Tail(sentences))

\* The example made of a chunk with two sentences or more.
Example(sentences) ==
  [instruction |-> <<"Continue the following text: ">> \o Head(sentences) \o <<".">>,
   input |-> <<>>,
   output |-> JoinSentences(Tail(sentences))]

\* The examples of the chunks of one text.
RECURSIVE ChunkExamples(_)
ChunkExamples(chunks) ==
  IF chunks = <<>> THEN <<>>
  ELSE (IF Len(SplitSentences(Head(chunks), <<>>)) >= 2
        THEN <<Example(SplitSentences(Head(chunks), <<>>))>> ELSE <<>>)
         \o ChunkExamples(Tail(chunks))

\* create_training_examples(texts) under configuration cfg
RECURSIVE create_training_examples(_, _)
create_training_examples(texts, cfg) ==
  IF texts = <<>> THEN <<>>
  ELSE ChunkExamples(chunk_text(Head(texts), cfg.chunk_size, cfg))
         \o create_training_examples(Tail(texts), cfg)

\* Dataset.from_list(examples): a dataset holding the examples as its rows.
Dataset(examples) == [kind |-> "dataset", rows |-> examples]

FilesValue(files) == [kind |-> "files", files |-> files]
ProcessedValue(raw_texts, train, val) ==
  [kind |-> "processed", raw_texts |-> raw_texts, train |-> train, val |-> val]

\* process_data(file_paths) under configuration cfg: the texts it loaded and
\* the two datasets it returns.
process_data(file_paths, cfg) ==
  LET raw_texts == load_text_files(file_paths)
      cleaned_texts == [i \in 1..Len(raw_texts) |-> clean_text(raw_texts[i])]
      unique_texts == remove_duplicates(cleaned_texts, cfg)
      examples == create_training_examples(unique_texts, cfg)
      idx == split_idx(Len(examples), cfg.validation_split)
  IN  ProcessedValue(raw_texts, Dataset(SubSeq(examples, 1, idx)),
                     Dataset(SubSeq(examples, idx + 1, Len(examples))))

\* -------------------------------------------------------- TrainingPipeline
OutputDirs      == {"out"}
ExperimentNames == {"x1"}
TimestampName   == "training_ts"
OutputPaths     == {<<o, n>> : o \in OutputDirs, n \in ExperimentNames \cup {TimestampName}}

\* A directory that does not exist.
NoDir == [exists |-> FALSE, files |-> {}, sidecar |-> {}]
NoArgs == [output_dir |-> None, experiment_name |-> None]
NoResult == [returned |-> FALSE, raised |-> FALSE, success |-> FALSE, error |-> None]

TrainInit ==
  /\ t_pc = "Idle"
  /\ t_args = NoArgs
  /\ t_trace = <<>>
  /\ t_result = NoResult
  /\ fs = [p \in OutputPaths |-> NoDir]
  /\ nRuns = 0

PipeInit == PrepInit /\ TrainInit

ErrorMessages == {"boom"}

\* The files a training run writes into its directory, and the keys of the
\* metadata document it dumps into training_metadata.json.
WeightsFile   == "adapter_model"
TokenizerFile == "tokenizer"
SidecarFile   == "training_metadata.json"
SidecarKeys ==
  {"experiment_name", "model_name", "data_files", "train_samples", "val_samples",
   "data_config", "lora_config", "output_dir", "timestamp"}

\* The stages of a run, in the order run_training and train go through them.
StageOrder == <<"Processing", "ModelLoading", "AdapterAttached", "Tokenizing", "Training">>

\* output_path = Path(output_dir) / experiment_name
OutputPath(args) == <<args.output_dir, args.experiment_name>>

\* What `last` holds after a step of run_training.
TrainStep == Op("train_step", None, None, <<>>, None, <<>>, NoHandle, None)

\* A step of run_training that does not end the call: the call moves on to
\* `to`, enters the stages `entered` and leaves the file system as `fs2`.
RunGoes(to, entered, fs2) ==
  /\ t_pc' = to
  /\ t_trace' = t_trace \o entered
  /\ fs' = fs2
  /\ last' = TrainStep
  /\ UNCHANGED <<t_args, t_result, nRuns, prepVars, storeVars, regVars, streamVars, threadVars>>

\* A step inside the try block raises: the except clause returns the failure.
RunFails(msg) ==
  /\ t_pc' = "Failed"
  /\ t_result' = [returned |-> TRUE, raised |-> FALSE, success |-> FALSE, error |-> msg]
  /\ last' = TrainStep
  /\ UNCHANGED <<t_args, t_trace, fs, nRuns, prepVars, storeVars, regVars, streamVars, threadVars>>

\* run_training(data_files, output_dir, experiment_name) is called: the
\* experiment name is fixed.  One call is followed at a time.
RunTraining(output_dir, experiment_name) ==
  /\ nRuns < MaxRuns
  /\ t_pc \in {"Idle", "Saved", "Failed", "Raised"}
  /\ nRuns' = nRuns + 1
  /\ t_pc' = "Mkdir"
  /\ t_args' = [output_dir |-> output_dir,
                experiment_name |-> IF experiment_name = None THEN TimestampName
                                    ELSE experiment_name]
  /\ t_trace' = <<>>
  /\ t_result' = NoResult
  /\ last' = TrainStep
  /\ UNCHANGED <<fs, prepVars, storeVars, regVars, streamVars, threadVars>>

\* output_path.mkdir(parents=True, exist_ok=True), before the try block: when
\* it raises, the exception leaves run_training.  Otherwise process_data begins.
Mkdir(ok) ==
  /\ t_pc = "Mkdir"
  /\ IF ok
     THEN RunGoes("Processing", <<"Processing">>,
                  [fs EXCEPT ![OutputPath(t_args)].exists = TRUE])
     ELSE /\ t_pc' = "Raised"
          /\ t_result' = [returned |-> FALSE, raised |-> TRUE, success |-> FALSE,
                          error |-> None]
          /\ last' = TrainStep
          /\ UNCHANGED <<t_args, t_trace, fs, nRuns, prepVars, storeVars, regVars,
                         streamVars, threadVars>>

\* self.data_processor.process_data(data_files)
ProcessData(ok, msg) ==
  /\ t_pc = "Processing"
  /\ IF ok THEN RunGoes("ModelLoading", <<"ModelLoading">>, fs) ELSE RunFails(msg)

\* self.data_processor.process_data(data_files) on the data files the
\* pipeline was given: no statement of it raises on them, so the call goes on
\* to load the model.
ProcessFiles ==
  /\ t_pc = "Processing"
  /\ p_in.kind = "files"
  /\ p_out' = process_data(p_in.files, config)
  /\ p_op' = "process_data"
  /\ t_pc' = "ModelLoading"
  /\ t_trace' = t_trace \o <<"ModelLoading">>
  /\ last' = TrainStep
  /\ UNCHANGED <<config, p_in, t_args, t_result, fs, nRuns, storeVars, regVars, streamVars, threadVars>>

\* self.model_trainer.load_model_and_tokenizer()
LoadModelAndTokenizer(ok, msg) ==
  /\ t_pc = "ModelLoading"
  /\ IF ok THEN RunGoes("SetupLora", <<>>, fs) ELSE RunFails(msg)

\* self.model_trainer.setup_lora(): the adapter is attached when it returns.
SetupLora(ok, msg) ==
  /\ t_pc = "SetupLora"
  /\ IF ok THEN RunGoes("AdapterAttached", <<"AdapterAttached">>, fs) ELSE RunFails(msg)

\* self.model_trainer.train(...) is called and starts tokenizing.
TrainCall ==
  /\ t_pc = "AdapterAttached"
  /\ RunGoes("Tokenizing", <<"Tokenizing">>, fs)

\* train: both tokenize_dataset calls, the collator, the arguments, the Trainer.
TokenizeDatasets(ok, msg) ==
  /\ t_pc = "Tokenizing"
  /\ IF ok THEN RunGoes("Training", <<"Training">>, fs) ELSE RunFails(msg)

\* train: trainer.train()
TrainerTrain(ok, msg) ==
  /\ t_pc = "Training"
  /\ IF ok THEN RunGoes("SaveModel", <<>>, fs) ELSE RunFails(msg)

\* train: trainer.save_model()
SaveModel(ok, msg) ==
  /\ t_pc = "SaveModel"
  /\ IF ok
     THEN RunGoes("SaveTokenizer", <<>>,
                  [fs EXCEPT ![OutputPath(t_args)].files = @ \cup {WeightsFile}])
     ELSE RunFails(msg)

\* train: self.tokenizer.save_pretrained(output_dir)
SaveTokenizer(ok, msg) ==
  /\ t_pc = "SaveTokenizer"
  /\ IF ok
     THEN RunGoes("WriteMetadata", <<>>,
                  [fs EXCEPT ![OutputPath(t_args)].files = @ \cup {TokenizerFile}])
     ELSE RunFails(msg)

\* The metadata dict is dumped into training_metadata.json and run_training
\* returns success.
WriteMetadata(ok, msg) ==
  /\ t_pc = "WriteMetadata"
  /\ IF ok
     THEN /\ t_pc' = "Saved"
          /\ fs' = [fs EXCEPT ![OutputPath(t_args)].files = @ \cup {SidecarFile},
                              ![OutputPath(t_args)].sidecar = SidecarKeys]
          /\ t_result' = [returned |-> TRUE, raised |-> FALSE, success |-> TRUE,
                          error |-> None]
          /\ last' = TrainStep
          /\ UNCHANGED <<t_args, t_trace, nRuns, prepVars, storeVars, regVars, streamVars, threadVars>>
     ELSE RunFails(msg)

RunStep ==
  \E ok \in BOOLEAN, msg \in ErrorMessages :
    \/ Mkdir(ok)
    \/ ProcessData(ok, msg)
    \/ LoadModelAndTokenizer(ok, msg)
    \/ SetupLora(ok, msg)
    \/ TrainCall
    \/ TokenizeDatasets(ok, msg)
    \/ TrainerTrain(ok, msg)
    \/ SaveModel(ok, msg)
    \/ SaveTokenizer(ok, msg)
    \/ WriteMetadata(ok, msg)

\* ModelMetadata: the fields of the dataclass and those without a default.
ModelMetadataFields ==
  {"model_id", "model_name", "model_type", "base_model", "training_data",
   "created_at", "model_size", "capabilities", "performance_metrics"}
ModelMetadataRequired == {"model_id", "model_name", "model_type"}

\* ModelMetadata(**data): a keyword that is no field, or a missing required
\* field, is a TypeError.
MetadataConstructs(keys) ==
  keys \subseteq ModelMetadataFields /\ ModelMetadataRequired \subseteq keys

\* _load_metadata on a directory: the sidecar document when the file exists,
\* basic metadata otherwise.
load_metadata(dir) ==
  IF SidecarFile \in dir.files
  THEN [ok |-> MetadataConstructs(dir.sidecar), from |-> "sidecar"]
  ELSE [ok |-> TRUE, from |-> "basic"]

\* load_model on a directory that training wrote into: _load_model calls
\* _load_metadata first, and any exception of it fails the load; libs_ok is
\* whether the tokenizer, the model and the generation config load.
LoadTrainedModel(path, libs_ok) ==
  /\ fs[path].exists
  /\ LoadModel(path, None, load_metadata(fs[path]).ok /\ libs_ok)


\* A stand-alone ConversationManager(max_history).
StoreSpecInit ==
  /\ \E mh \in 0..MaxMaxHistory : StoreInit(mh)
  /\ RegInit
  /\ StreamInit
  /\ PipeInit
  /\ ThreadInit
  /\ last = NoOp

StoreNext ==
  \/ \E cid \in ConvIds, role \in Roles, content \in Contents :
       AddMessage(cid, role, content)
  \/ \E cid \in ConvIds : ClearConversation(cid)

StoreSpec == StoreSpecInit /\ [][StoreNext]_vars

\* A ModelManager(): an empty registry with a ConversationManager() of the
\* default max_history.
RegSpecInit ==
  /\ StoreInit(DefaultMaxHistory)
  /\ RegInit
  /\ StreamInit
  /\ PipeInit
  /\ ThreadInit
  /\ last = NoOp

\* Number of turns conversation cid holds.
ConvLen(cid) == IF cid \in DOMAIN conversations THEN Len(conversations[cid]) ELSE 0

RegNext ==
  \/ \E path \in Paths, idarg \in ModelIds \cup {None}, ok \in BOOLEAN :
       LoadModel(path, idarg, ok)
  \/ \E model_id \in ModelIds : UnloadModel(model_id)
  \/ \E model_id \in ModelIds : SetDefaultModel(model_id)
  \/ \E cid \in ConvIds, idarg \in ModelIds \cup {None}, ok \in BOOLEAN :
       /\ ConvLen(cid) < 2 * MaxChats
       /\ Chat(<<"h">>, cid, idarg, ok, <<"a", EosToken>>)
  \/ \E cid \in ConvIds : ClearConversation(cid)

RegSpec == RegSpecInit /\ [][RegNext]_vars

\* A stand-alone store whose client also reads contexts.
ContextNext ==
  \/ \E cid \in ConvIds, role \in Roles, content \in Contents :
       AddMessage(cid, role, content)
  \/ \E cid \in ConvIds : ClearConversation(cid)
  \/ \E cid \in ConvIds : GetConversationContext(cid)

ContextSpec == StoreSpecInit /\ [][ContextNext]_vars

\* A ModelManager() serving one conversation from one model directory, for as
\* long as the conversation lasts.
ChatNext ==
  \/ LoadModel(<<"d", "m1">>, None, TRUE)
  \/ \E message \in Messages, ok \in BOOLEAN :
       Chat(message, "c1", None, ok, <<" ", "a", EosToken>>)
  \/ ClearConversation("c1")

ChatSpec == RegSpecInit /\ [][ChatNext]_vars

\* A ModelManager() whose clients load and unload models, chat, and consume
\* chat_streaming sequences while a generation thread runs.
StreamNext ==
  \/ LoadModel(<<"d", "m1">>, None, TRUE)
  \/ \E idarg \in {None, "m2"} :
       /\ ConvLen("c1") < 2 * MaxChats
       /\ Chat(<<"h">>, "c1", idarg, TRUE, <<"a", EosToken>>)
  \/ \E idarg \in {None, "m2"} : StreamCall(<<"y">>, "c1", idarg)
  \/ \E ok \in BOOLEAN, gen \in Generations : StreamFirstPull(ok, gen)
  \/ WorkerStep
  \/ ConsumerStep
  \/ ConsumerPull
  \/ ConsumerClose

StreamSpec == RegSpecInit /\ [][StreamNext]_vars

\* A ModelManager() whose client unloads the model while a chat_streaming
\* sequence is being generated and consumed.
UnloadStreamNext ==
  \/ LoadModel(<<"d", "m1">>, None, TRUE)
  \/ UnloadModel("m1")
  \/ /\ ConvLen("c1") < 2 * MaxChats
     /\ Chat(<<"h">>, "c1", None, TRUE, <<"a", EosToken>>)
  \/ StreamCall(<<"y">>, "c1", None)
  \/ \E gen \in Generations : StreamFirstPull(TRUE, gen)
  \/ WorkerStep
  \/ ConsumerStep
  \/ ConsumerPull
  \/ ConsumerClose

UnloadStreamSpec == RegSpecInit /\ [][UnloadStreamNext]_vars

\* The threads run: the generation thread and a consumer inside a pull are
\* scheduled again and again.
FairStreamSpec ==
  StreamSpec /\ WF_vars(WorkerStep) /\ WF_vars(ConsumerStep)

\* The threads run and the consumer keeps asking for the next fragment for as
\* long as it has not closed the sequence.
FairDrainSpec ==
  StreamSpec /\ WF_vars(WorkerStep) /\ WF_vars(ConsumerStep) /\ WF_vars(ConsumerPull)

\* A ModelManager() whose client loads one model and consumes chat_streaming
\* sequences from it, to their end or not; the generation thread is scheduled
\* again and again.
EarlyStopNext ==
  \/ /\ DictKeys(models) = {}
     /\ LoadModel(<<"d", "m1">>, None, TRUE)
  \/ StreamCall(<<"y">>, "c1", None)
  \/ \E gen \in Generations : StreamFirstPull(TRUE, gen)
  \/ WorkerStep
  \/ ConsumerStep
  \/ ConsumerPull
  \/ ConsumerClose

EarlyStopSpec == RegSpecInit /\ [][EarlyStopNext]_vars /\ WF_vars(WorkerStep)

\* No chat_streaming call is under way.
StreamQuiet == s_pc \in {"none", "done", "failed", "closed"}

\* A ModelManager() with one model whose client makes its calls on one
\* conversation one at a time: chat calls, one of them followed statement by
\* statement, chat_streaming calls that are drained, and clears.
PairsNext ==
  \/ /\ DictKeys(models) = {}
     /\ LoadModel(<<"d", "m1">>, None, TRUE)
  \/ \E ok \in BOOLEAN :
       /\ AllIdle /\ StreamQuiet
       /\ Chat(<<"h">>, "c1", None, ok, <<"a", EosToken>>)
  \/ /\ StreamQuiet
     /\ ChatBegin("t1", <<"y">>, "c1", None)
  \/ ChatStep("t1")
  \/ /\ AllIdle /\ StreamQuiet
     /\ ClearConversation("c1")
  \/ /\ AllIdle
     /\ StreamCall(<<"y">>, "c1", None)
  \/ StreamFirstPull(TRUE, <<"a", EosToken>>)
  \/ WorkerStep
  \/ ConsumerStep
  \/ ConsumerPull

PairsSpec == RegSpecInit /\ [][PairsNext]_vars

\* A ModelManager() whose client loads models and then has two threads unload
\* models, each one that is loaded and that the other thread is not unloading.
TwoUnloadsNext ==
  \/ \E path \in Paths :
       /\ AllIdle
       /\ \A t \in Callers : th[t].calls = 0
       /\ LoadModel(path, None, TRUE)
  \/ \E t \in Callers, model_id \in ModelIds :
       /\ model_id \in DictKeys(models)
       /\ \A o \in Callers : ~(th[o].op = "unload" /\ th[o].arg = model_id)
       /\ UnloadBegin(t, model_id)
  \/ \E t \in Callers : UnloadStep(t)

TwoUnloadsSpec == RegSpecInit /\ [][TwoUnloadsNext]_vars

\* A ModelManager() with one model, serving chat calls on one conversation:
\* first one at a time, then from two threads at once.
TwoChatsNext ==
  \/ /\ DictKeys(models) = {}
     /\ LoadModel(<<"d", "m1">>, None, TRUE)
  \/ /\ AllIdle
     /\ \A t \in Callers : th[t].calls = 0
     /\ Chat(<<"h">>, "c1", None, TRUE, <<"a", EosToken>>)
  \/ \E t \in Callers :
       ChatBegin(t, IF t = "t1" THEN <<"h">> ELSE <<"y">>, "c1", None)
  \/ \E t \in Callers : ChatStep(t)

TwoChatsSpec == RegSpecInit /\ [][TwoChatsNext]_vars

\* The training blueprint: jobs are started, their threads run, and users
\* cancel them.
JobNext ==
  \/ \E user_id \in JobUsers, now \in JobSeconds, files_exist \in BOOLEAN :
       StartTraining(user_id, now, files_exist)
  \/ \E job_id \in JobIds, imported \in BOOLEAN : JobBegin(job_id, imported)
  \/ \E job_id \in JobIds, built \in BOOLEAN : JobConfigure(job_id, built)
  \/ \E job_id \in JobIds, outcome \in {"success", "failure", "raise"} :
       JobTrain(job_id, outcome)
  \/ \E job_id \in JobIds, user_id \in JobUsers : CancelTrainingJob(job_id, user_id)

JobSpec == RegSpecInit /\ [][JobNext]_vars

\* A TrainingPipeline() whose runs write model directories, and a
\* ModelManager() that loads them.
TrainNext ==
  \/ \E o \in OutputDirs, n \in ExperimentNames \cup {None} : RunTraining(o, n)
  \/ RunStep
  \/ \E path \in OutputPaths : LoadTrainedModel(path, TRUE)

TrainSpec == RegSpecInit /\ [][TrainNext]_vars

\* A DataProcessor(DataProcessingConfig()) that is given a text to clean.
CleanSpecInit ==
  /\ StoreInit(DefaultMaxHistory)
  /\ RegInit
  /\ StreamInit
  /\ TrainInit
  /\ ThreadInit
  /\ config = DefaultConfig
  /\ p_op = "given"
  /\ \E text \in TextsUpTo(MaxTextLen) : p_in = TextValue(text)
  /\ p_out = TextValue(<<>>)
  /\ last = NoOp

CleanNext == CleanText

CleanSpec == CleanSpecInit /\ [][CleanNext]_vars

\* A DataProcessor(config) that is given a text to chunk: config.min_length
\* and config.overlap_ratio vary.
ChunkSpecInit ==
  /\ StoreInit(DefaultMaxHistory)
  /\ RegInit
  /\ StreamInit
  /\ TrainInit
  /\ ThreadInit
  /\ \E ml \in 0..MaxMinLength, ratio \in {"0.0", "0.5"} :
       config = [DefaultConfig EXCEPT !.min_length = ml, !.overlap_ratio = ratio]
  /\ p_op = "given"
  /\ \E text \in ChunkTexts, n \in 1..MaxChunkSize : p_in = ChunkArgs(text, n)
  /\ p_out = ChunksValue(<<>>)
  /\ last = NoOp

ChunkNext == ChunkText

ChunkSpec == ChunkSpecInit /\ [][ChunkNext]_vars

\* A DataProcessor(config) whose process_data has synthesized its examples:
\* config.validation_split varies.
SplitSpecInit ==
  /\ StoreInit(DefaultMaxHistory)
  /\ RegInit
  /\ StreamInit
  /\ TrainInit
  /\ ThreadInit
  /\ \E split \in FloatLiterals :
       config = [DefaultConfig EXCEPT !.validation_split = split]
  /\ p_op = "given"
  /\ \E n \in 0..MaxExamples : p_in = ExamplesValue([i \in 1..n |-> i])
  /\ p_out = SplitValue(<<>>, <<>>)
  /\ last = NoOp

SplitNext == SplitExamples

SplitSpec == SplitSpecInit /\ [][SplitNext]_vars

\* A DataProcessor(config) that is given a list of texts to deduplicate:
\* config.remove_duplicates varies.
DedupSpecInit ==
  /\ StoreInit(DefaultMaxHistory)
  /\ RegInit
  /\ StreamInit
  /\ TrainInit
  /\ ThreadInit
  /\ \E toggle \in BOOLEAN :
       config = [DefaultConfig EXCEPT !.remove_duplicates = toggle]
  /\ p_op = "given"
  /\ \E texts \in DedupLists : p_in = TextsValue(texts)
  /\ p_out = TextsValue(<<>>)
  /\ last = NoOp

DedupNext == RemoveDuplicates

DedupSpec == DedupSpecInit /\ [][DedupNext]_vars

\* A TrainingPipeline(data_config=config) whose run_training is given a list
\* of data files, readable or not: config.min_length is the default or 1.
IngestSpecInit ==
  /\ StoreInit(DefaultMaxHistory)
  /\ RegInit
  /\ StreamInit
  /\ TrainInit
  /\ ThreadInit
  /\ \E ml \in {1, DefaultConfig.min_length} :
       config = [DefaultConfig EXCEPT !.min_length = ml]
  /\ p_op = "given"
  /\ \E files \in FileLists : p_in = FilesValue(files)
  /\ p_out = ProcessedValue(<<>>, Dataset(<<>>), Dataset(<<>>))
  /\ last = NoOp

IngestNext ==
  \/ \E o \in OutputDirs, n \in ExperimentNames : RunTraining(o, n)
  \/ \E ok \in BOOLEAN : Mkdir(ok)
  \/ ProcessFiles
  \/ \E ok \in BOOLEAN, msg \in ErrorMessages :
       \/ LoadModelAndTokenizer(ok, msg)
       \/ SetupLora(ok, msg)
       \/ TokenizeDatasets(ok, msg)
       \/ TrainerTrain(ok, msg)
       \/ SaveModel(ok, msg)
       \/ SaveTokenizer(ok, msg)
       \/ WriteMetadata(ok, msg)
  \/ TrainCall

IngestSpec == IngestSpecInit /\ [][IngestNext]_vars

\* list_models(): one entry per loaded model, with its is_default mark.
list_models ==
  [i \in 1..Len(models) |->
     [model_id |-> models[i].id, is_default |-> models[i].id = default_model_id]]

\* C7: the default model id is None exactly when no model is loaded and
\* otherwise names a loaded model; list_models() marks exactly one entry as
\* default when it is non-empty; a chat without model_id that found no default
\* raised, and no model is loaded then.
C7_DefaultNamesLoadedModel ==
  /\ default_model_id = None <=> models = <<>>
  /\ default_model_id # None => default_model_id \in DictKeys(models)
  /\ models # <<>> =>
       Cardinality({i \in 1..Len(list_models) : list_models[i].is_default}) = 1
  /\ (last.op = "chat" /\ last.arg = None) =>
       \/ last.result = "ValueError" /\ models = <<>>
       \/ /\ last.result # "ValueError"
          /\ \E i \in 1..Len(models) : models[i].handle = last.handle

\* The default was unloaded while another model was loaded, and that model is
\* the default now.
C7_Witness ==
  /\ last.op = "unload"
  /\ last.dflt = last.arg
  /\ models # <<>>
  /\ default_model_id = models[1].id
  /\ default_model_id # last.arg

\* C8: a successful load makes its id the default when there was no default
\* and leaves the default unchanged otherwise; afterwards the id has exactly
\* one entry, holding the handle this load built, and every other entry is as
\* it was.
C8_LoadSetsFirstDefaultOnly ==
  [][(last'.op = "load" /\ last'.result = "ok") =>
       /\ default_model_id' =
            (IF default_model_id = None THEN last'.arg ELSE default_model_id)
       /\ Cardinality({i \in 1..Len(models') : models'[i].id = last'.arg}) = 1
       /\ \A i, j \in 1..Len(models') : models'[i].id = models'[j].id => i = j
       /\ DictValue(models', last'.arg) = last'.handle
       /\ last'.handle.serial = nLoads'
       /\ DictKeys(models') = DictKeys(models) \cup {last'.arg}
       /\ \A k \in DictKeys(models) \ {last'.arg} :
            DictValue(models', k) = DictValue(models, k)]_vars

\* The third load replaced the handle of the id loaded first while another id
\* was the default, and that other id still is.
C8_Witness ==
  /\ last.op = "load" /\ last.result = "ok"
  /\ Len(models) = 2
  /\ models[1].id = last.arg
  /\ models[1].handle.serial = 3
  /\ last.dflt = models[2].id
  /\ default_model_id = models[2].id

\* C10: a successful chat on a conversation of n turns leaves
\* min(n + 2, 2 * max_history) turns, the last two being (user, message) and
\* (assistant, returned response).
C10_ChatRecordsExchange ==
  [][(last'.op = "chat" /\ last'.result = "ok") =>
       LET cid == last'.conv
           after == conversations'[cid]
           k == Len(after)
       IN  /\ k = Min(ConvLen(cid) + 2, 2 * max_history)
           /\ after[k - 1] = Turn("user", last'.msg)
           /\ after[k] = Turn("assistant", last'.out)
           /\ \A c \in DOMAIN conversations \ {cid} :
                conversations'[c] = conversations[c]]_vars

\* A chat that found the conversation full: 20 turns are kept and the oldest
\* exchange is gone.
C10_Witness ==
  /\ last.op = "chat" /\ last.result = "ok"
  /\ max_history = DefaultMaxHistory
  /\ Len(conversations["c1"]) = 2 * DefaultMaxHistory
  /\ Len(appended["c1"]) = 2 * DefaultMaxHistory + 1
  /\ conversations["c1"][2 * DefaultMaxHistory] = Turn("assistant", last.out)

\* C5: every conversation holds at most 2 * max_history turns, for every
\* max_history >= 0 the store is constructed with.
C5_AtMostTwiceMaxHistory ==
  \A c \in DOMAIN conversations : Len(conversations[c]) <= 2 * max_history

\* C6: with max_history >= 1, a conversation holds exactly the last
\* min(k, 2 * max_history) of the k turns appended to it since it was last
\* emptied, in append order.
C6_KeepsLastAppended ==
  max_history >= 1 =>
    \A c \in DOMAIN conversations :
      conversations[c] =
        LastK(appended[c], Min(Len(appended[c]), 2 * max_history))

\* 2 * 3 + 1 appends with max_history = 3 left 6 turns, the first one missing.
C6_Witness ==
  /\ max_history = 3
  /\ last.op = "append"
  /\ \E c \in DOMAIN conversations :
       /\ Len(appended[c]) = 7
       /\ Len(conversations[c]) = 6
       /\ conversations[c] = Tail(appended[c])
       /\ appended[c][1] # appended[c][2]

\* C1: a consumer that drained a streaming sequence to its end received
\* exactly the fragments the generation thread put on the queue, each once and
\* in order.
C1_DrainedReceivesAllPushed ==
  s_pc = "done" => yielded = pushed

\* C2: once the generation thread has died without calling end(), a consumer
\* inside a pull eventually leaves it (a fragment, the end of the sequence or
\* an error).
C2_PullEventuallyReturns ==
  (w_pc = "dead" /\ s_pc \in {"get", "empty"})
    ~> (s_pc \in {"yield", "done", "failed"})

\* C3: no step of a chat_streaming call changes the conversation store, except
\* the step that ends a drained sequence; that step leaves (user, message) and
\* (assistant, concatenation of the yielded fragments) as the last two turns of
\* the conversation and changes no other conversation.
C3_RecordsOnlyWhenDrained ==
  [][/\ last'.op \in {"stream_call", "stream_start", "step", "stream_close"} =>
          conversations' = conversations
     /\ last'.op = "stream_done" =>
          LET cid == last'.conv
              after == conversations'[cid]
              k == Len(after)
          IN  /\ s_pc = "join" /\ s_pc' = "done"
              /\ k >= 2
              /\ after[k - 1] = Turn("user", last'.msg)
              /\ after[k] = Turn("assistant", Concat(yielded))
              /\ \A c \in DOMAIN conversations \ {cid} :
                   conversations'[c] = conversations[c]]_vars

\* The consumer stopped pulling after a fragment, with more on the queue, and
\* the conversation of the call holds nothing.
C3_Witness ==
  /\ last.op = "stream_close"
  /\ s_pc = "closed"
  /\ yielded # <<>>
  /\ queue # <<>>
  /\ ConvLen(s_call.conv) = 0

\* C4: the fragments of a chat_streaming sequence consumed to completion join
\* to the string chat returns for the same generated tokens (here for the
\* sequences in which every queued fragment was yielded).
C4_StreamEqualsSync ==
  (s_pc = "done" /\ yielded = pushed) =>
    Concat(yielded) = generate_response(s_gen)

\* C9: chat, and chat_streaming at the pull that resolves its model, raise
\* ValueError("No model available for inference") exactly when the resolved id
\* (the model_id given, else the default) is not a loaded model; then the
\* conversation store is unchanged, no handle is used and no generation
\* thread is started.
C9_NoModelAvailable ==
  [][last'.op \in {"chat", "stream_start"} =>
       LET resolved == IF last'.arg = None THEN default_model_id ELSE last'.arg
       IN  /\ last'.result = "ValueError" <=>
                (resolved = None \/ resolved \notin DictKeys(models))
           /\ last'.result = "ValueError" =>
                /\ conversations' = conversations
                /\ last'.handle = NoHandle
                /\ w_pc' = w_pc /\ queue' = queue /\ s_gen' = s_gen]_vars

\* A chat_streaming call naming a model that is not loaded failed at its
\* first pull although a default model is loaded.
C9_Witness ==
  /\ last.op = "stream_start"
  /\ last.result = "ValueError"
  /\ last.arg = "m2"
  /\ default_model_id = "m1"
  /\ s_pc = "failed"

\* C11: once unload_model(id) has returned, the ModelInference object that id
\* named is not used again: no later step of the generation thread generates
\* from it, no chat_streaming call that resolved it records its two turns, and
\* no chat call answers from it.
C11_UnloadedHandleNeverUsed ==
  [][ /\ (w_pc = "run" /\ w_feed' # w_feed) => s_handle \notin unloaded
      /\ last'.op = "stream_done" => s_handle \notin unloaded
      /\ (last'.op = "chat" /\ last'.result = "ok") => last'.handle \notin unloaded ]_vars
\* C12: unload_model(id) and set_default_model(id), given an id that is not
\* loaded, fail with an error (ValueError stands for the not-loaded error)
\* and leave the loaded models and the default as they were.
C12_NotLoadedFails ==
  [][ (last'.op \in {"unload", "set_default"} /\ last'.arg \notin DictKeys(models))
        => /\ last'.result = "ValueError"
           /\ models' = models
           /\ default_model_id' = default_model_id ]_vars
\* C13: a failure of generation reaches the caller as a ModelInferenceError
\* wherever it is raised: once model.generate has raised inside the generation
\* thread, a consumer that keeps pulling gets the call to fail (unless it closed
\* the sequence itself); the failure is not swallowed.
C13_WorkerFailureReachesCaller ==
  (w_pc = "dead") ~> (s_pc \in {"failed", "closed"})
\* C14: the queue between the generation thread and the consumer is bounded
\* by a capacity that does not depend on how many tokens are generated: it
\* never holds everything a generation of the largest length produces (every
\* fragment and the end mark), because the thread blocks before that.
C14_QueueBounded ==
  Len(queue) <= MaxNewTokens
\* Whether list a is the beginning of list b.
IsPrefix(a, b) == Len(a) <= Len(b) /\ a = SubSeq(b, 1, Len(a))

\* What a call of run_training that reached Saved has left in its directory.
RunWroteAll ==
  /\ {WeightsFile, TokenizerFile, SidecarFile} \subseteq fs[OutputPath(t_args)].files
  /\ fs[OutputPath(t_args)].sidecar = SidecarKeys

\* C15: a call of run_training enters its stages only in the order Processing,
\* ModelLoading, AdapterAttached, Tokenizing, Training; it ends either in Saved,
\* after all five stages and with weights, tokenizer and metadata written and
\* success = true returned, or in Failed with success = false returned; it
\* ends in no other way, and once it has ended no stage of it executes.
C15_RunStagesInOrder ==
  /\ [](/\ IsPrefix(t_trace, StageOrder)
        /\ t_pc = "Saved" =>
             /\ t_trace = StageOrder
             /\ RunWroteAll
             /\ t_result.returned /\ t_result.success
        /\ t_pc = "Failed" => t_result.returned /\ ~t_result.success
        /\ (t_result.returned \/ t_result.raised) => t_pc \in {"Saved", "Failed"})
  /\ [][(t_pc \in {"Saved", "Failed"} /\ nRuns' = nRuns) => UNCHANGED trainVars]_vars

\* C16: a failure at any step of run_training, the creation of the output
\* directory included, makes the call return success = false with the message
\* of the failure; the call never raises to its caller.
C16_RunNeverRaises ==
  /\ ~t_result.raised
  /\ t_pc # "Raised"
  /\ t_pc = "Failed" =>
       t_result.returned /\ ~t_result.success /\ t_result.error \in ErrorMessages
\* C17: the directory written by a run that ended in Saved can be loaded:
\* load_model on it succeeds (the tokenizer and model files being loadable),
\* with the metadata taken from the sidecar document the run wrote.
C17_SavedDirectoryLoads ==
  /\ t_pc = "Saved" =>
       /\ load_metadata(fs[OutputPath(t_args)]).ok
       /\ load_metadata(fs[OutputPath(t_args)]).from = "sidecar"
  /\ (last.op = "load" /\ t_pc = "Saved" /\ last.arg = t_args.experiment_name)
       => last.result = "ok"
\* C18: clean_text is idempotent: cleaning a cleaned text gives the cleaned
\* text again, for every input, also one where a character that is removed
\* stands between two spaces.
C18_CleanIdempotent ==
  p_op = "clean_text twice" => p_out.text = clean_text(p_in.text)
\* The words of a list of chunks, chunk after chunk.
RECURSIVE ChunkWords(_)
ChunkWords(chunks) ==
  IF chunks = <<>> THEN <<>> ELSE Split(Head(chunks)) \o ChunkWords(Tail(chunks))

\* chunk_text has run with overlap_ratio = 0 on a text whose word count is a
\* multiple of the chunk size.
ChunkedEvenly ==
  /\ p_op = "chunk_text"
  /\ config.overlap_ratio = "0.0"
  /\ Len(Split(p_in.text)) % p_in.chunk_size = 0

\* C19 as stated: for every chunk size n >= 1 and every text whose word count
\* is a multiple of n, chunk_text with overlap_ratio = 0 returns chunks whose
\* word counts sum to the word count of the text, every word being in exactly
\* one chunk and in the original order.
C19_ChunksPartitionWords ==
  ChunkedEvenly => ChunkWords(p_out.chunks) = Split(p_in.text)

\* C19 as amended: the same for every chunk size n >= max(1, min_length).
C19_ChunksPartitionWordsAboveMinLength ==
  (ChunkedEvenly /\ config.min_length <= p_in.chunk_size)
    => /\ ChunkWords(p_out.chunks) = Split(p_in.text)
       /\ \A k \in 1..Len(p_out.chunks) : Len(Split(p_out.chunks[k])) = p_in.chunk_size

\* chunk_text cut a text of four words into two chunks of two.
C19_Witness ==
  /\ ChunkedEvenly
  /\ config.min_length <= p_in.chunk_size
  /\ Len(Split(p_in.text)) = 4
  /\ Len(p_out.chunks) = 2
\* The number of tenths a literal denotes.
Tenths(lit) ==
  CASE lit = "0.0" -> 0
    [] lit = "0.1" -> 1
    [] lit = "0.2" -> 2
    [] lit = "0.5" -> 5
    [] lit = "0.8" -> 8

\* floor(n * (1 - validationSplit)) for the validation split as written.
ExactSplitIndex(n, validation_split) == (n * (10 - Tenths(validation_split))) \div 10

\* C20: process_data splits the N examples at index
\* floor(N * (1 - validationSplit)): train is the first that many examples,
\* validation the rest, and train followed by validation is the example list
\* in synthesis order; with validationSplit = 0.2 and N = 10 that is 8 and 2.
C20_SplitAtFloor ==
  p_op = "process_data" =>
    LET n == Len(p_in.examples)
        idx == ExactSplitIndex(n, config.validation_split)
    IN  /\ p_out.train = SubSeq(p_in.examples, 1, idx)
        /\ p_out.val = SubSeq(p_in.examples, idx + 1, n)
        /\ p_out.train \o p_out.val = p_in.examples
        /\ (n = 10 /\ config.validation_split = "0.2")
             => Len(p_out.train) = 8 /\ Len(p_out.val) = 2
\* Two texts are the same text when case and spaces are disregarded.
SameText(a, b) ==
  LET na == SelectSeq(a, LAMBDA c : c # " ")
      nb == SelectSeq(b, LAMBDA c : c # " ")
  IN  /\ Len(na) = Len(nb)
      /\ \A i \in 1..Len(na) :
           \/ na[i] = nb[i]
           \/ {na[i], nb[i]} \in {{"a", "A"}, {"b", "B"}}

\* The positions of texts that hold the first occurrence of their text.
FirstPositions(texts) ==
  {i \in 1..Len(texts) : \A j \in 1..(i - 1) : ~SameText(texts[j], texts[i])}

\* out is texts restricted to its first occurrences, in their order.
KeepsFirstOccurrences(texts, out) ==
  /\ Len(out) = Cardinality(FirstPositions(texts))
  /\ \A i \in FirstPositions(texts) :
       out[Cardinality({j \in FirstPositions(texts) : j <= i})] = texts[i]

\* The only repetition in texts is one exact duplicate.
OneExactDuplicate(texts) ==
  /\ Cardinality({pr \in (1..Len(texts)) \X (1..Len(texts)) :
                   pr[1] < pr[2] /\ SameText(texts[pr[1]], texts[pr[2]])}) = 1
  /\ \E i, j \in 1..Len(texts) : i < j /\ texts[i] = texts[j]

DedupKeepsFirst ==
  /\ KeepsFirstOccurrences(p_in.texts, p_out.texts)
  /\ OneExactDuplicate(p_in.texts) => Len(p_out.texts) = Len(p_in.texts) - 1

ReadablePositions(files) == {i \in 1..Len(files) : files[i].readable}

\* texts holds the contents of the readable files, in the order of the files.
TextsOfReadable(files, texts) ==
  /\ Len(texts) = Cardinality(ReadablePositions(files))
  /\ \A i \in ReadablePositions(files) :
       texts[Cardinality({j \in ReadablePositions(files) : j <= i})] = files[i].content

\* C22: a data file that cannot be read is skipped: process_data loads the texts
\* of exactly the readable files, in the order of the files, and run_training
\* goes from Processing on to loading the model, never to the failure return,
\* also when no file at all can be read and no example results.
C22_UnreadableFileSkipped ==
  /\ [](p_op = "process_data" => TextsOfReadable(p_in.files, p_out.raw_texts))
  /\ [][t_pc = "Processing" =>
          /\ t_pc' = "ModelLoading"
          /\ p_op' = "process_data"
          /\ t_result' = NoResult]_vars
\* Two files were given and neither could be read: process_data loaded nothing,
\* both datasets are empty, and the run has gone on to train.
C22_Witness ==
  /\ p_in.kind = "files"
  /\ Len(p_in.files) = 2
  /\ ReadablePositions(p_in.files) = {}
  /\ p_op = "process_data"
  /\ p_out.raw_texts = <<>>
  /\ p_out.train.rows = <<>> /\ p_out.val.rows = <<>>
  /\ t_pc = "Training"
\* C23: clear_conversation(id) leaves a known conversation present and empty,
\* so that its context is then empty, and leaves every other conversation as
\* it was; clear_conversation and get_conversation_context on an id the store
\* does not know create no conversation and end without an error.
C23_ClearEmptiesAndFrames ==
  [][ /\ last'.op = "clear" =>
           /\ DOMAIN conversations' = DOMAIN conversations
           /\ \A c \in DOMAIN conversations :
                conversations'[c] = IF c = last'.conv THEN <<>> ELSE conversations[c]
           /\ last'.result = "ok"
      /\ last'.op = "context" =>
           /\ conversations' = conversations
           /\ last'.result = "ok"
           /\ (\/ last'.conv \notin DOMAIN conversations
               \/ (last.op = "clear" /\ last.conv = last'.conv))
                 => last'.out = <<>> ]_vars
\* A conversation that held turns was cleared beside another one that holds
\* turns, and its context was then read as empty.
C23_Witness ==
  /\ last.op = "context"
  /\ last.conv = "c1"
  /\ last.out = <<>>
  /\ "c1" \in DOMAIN conversations /\ conversations["c1"] = <<>>
  /\ appended["c1"] = <<>>
  /\ nAppends >= 2
  /\ "c2" \in DOMAIN conversations /\ Len(conversations["c2"]) >= 1
\* The generation thread of a closed sequence has put every fragment of the
\* generation and the end mark: the queue holds the fragments the consumer did
\* not take, then the end mark.
WorkerRanToCompletion ==
  /\ Concat(pushed) = Decode(s_gen)
  /\ Len(pushed) = Len(Decode(s_gen))
  /\ finished
  /\ queue = [i \in 1..(Len(pushed) - Len(yielded)) |-> Fragment(pushed[Len(yielded) + i])]
               \o <<EndMark>>

\* C24: when the consumer closes a chat_streaming sequence before its end, the
\* step that closes it changes nothing of the generation thread or the queue;
\* the thread goes on and, unless model.generate itself raises, ends only after
\* it has put every remaining fragment and the end mark; and the closed call
\* never comes to its join.
C24_WorkerNotSignalled ==
  /\ [][(s_pc' = "closed" /\ s_pc # "closed") =>
          UNCHANGED <<w_pc, w_feed, queue, finished, pushed>>]_vars
  /\ [][s_pc = "closed" => s_pc' \in {"closed", "created"}]_vars
  /\ []((s_pc = "closed" /\ w_pc = "exit") => WorkerRanToCompletion)
  /\ (s_pc = "closed" /\ w_pc \in {"run", "ending"})
       ~> (s_pc = "closed" /\ w_pc \in {"exit", "dead"})
\* The consumer closed the sequence after one fragment while the generation
\* thread still had a token to hand over.
C24_Witness ==
  /\ s_pc = "closed"
  /\ Len(yielded) = 1
  /\ w_pc = "run"
  /\ Len(w_feed) >= 1
  /\ ~finished
\* C25: chat appends its two turns only after generation has returned: a chat
\* whose generation fails ends with ModelInferenceError and leaves the
\* conversation store exactly as it was, the user turn not recorded; a chat
\* that ends in an error of either kind records nothing.
C25_FailedChatLeavesStore ==
  [][(last'.op = "chat" /\ last'.result # "ok") =>
       /\ conversations' = conversations
       /\ appended' = appended
       /\ last'.result =
            IF ModelAvailable(ResolveModel(last'.arg, default_model_id), models)
            THEN "ModelInferenceError" ELSE "ValueError"]_vars
\* A chat on a conversation never used failed in generation beside a
\* conversation that holds an exchange: the first is still unknown to the store.
C25_Witness ==
  /\ last.op = "chat"
  /\ last.result = "ModelInferenceError"
  /\ last.conv = "c1"
  /\ "c1" \notin DOMAIN conversations
  /\ ConvLen("c2") = 2
\* turns is a list of whole (user, assistant) pairs.
WholePairs(turns) ==
  /\ Len(turns) % 2 = 0
  /\ \A i \in 1..Len(turns) :
       turns[i].role = IF i % 2 = 1 THEN "user" ELSE "assistant"

\* C26: with max_history >= 1 and the calls made one at a time, whenever no
\* call is under way every conversation is a list of whole (user, assistant)
\* pairs, at most max_history of them.
C26_WholePairsBetweenCalls ==
  (max_history >= 1 /\ AllIdle /\ StreamQuiet) =>
    \A c \in DOMAIN conversations :
      /\ WholePairs(conversations[c])
      /\ Len(conversations[c]) <= 2 * max_history
\* Between the two add_message calls of a chat on a full conversation, the
\* conversation begins with an assistant turn.
C26_Witness ==
  /\ th["t1"].op = "chat"
  /\ th["t1"].pc = "add_check"
  /\ th["t1"].role = "assistant"
  /\ Len(conversations["c1"]) = 2 * max_history
  /\ conversations["c1"][1].role = "assistant"
  /\ conversations["c1"][2 * max_history] = Turn("user", <<"y">>)
\* C27: a load_model call whose ModelInference cannot be constructed raises
\* and leaves the registry as it was: the same entries with the same objects,
\* in the same order, none of them unloaded, and the same default.
C27_FailedLoadLeavesRegistry ==
  [][(last'.op = "load" /\ last'.result # "ok") =>
       /\ last'.result = "ModelInferenceError"
       /\ models' = models
       /\ default_model_id' = default_model_id
       /\ unloaded' = unloaded]_vars
\* The load of an id that is loaded failed: the id still names the object of
\* the earlier load, which is still the default.
C27_Witness ==
  /\ last.op = "load"
  /\ last.result = "ModelInferenceError"
  /\ nLoads = 2
  /\ last.arg \in DictKeys(models)
  /\ DictValue(models, last.arg).serial = 1
  /\ default_model_id = last.arg
\* C28: whenever the unload_model calls of the two threads have returned, none
\* of them by an exception, the default is None only if no model is loaded, and
\* otherwise names a loaded model.
C28_DefaultAfterConcurrentUnloads ==
  (AllIdle /\ \A t \in Callers : ~th[t].raised) =>
    IF models = <<>> THEN default_model_id = None
    ELSE default_model_id \in DictKeys(models)
\* C29: whenever the chat calls of the two threads on one conversation have
\* returned, the conversation holds every turn appended to it, in the order of
\* the appends, but for the oldest ones beyond 2 * max_history.
C29_NoTurnLostToInterleaving ==
  AllIdle =>
    \A c \in ConvIds :
      IF c \in DOMAIN conversations
      THEN conversations[c] = LastK(appended[c], Min(Len(appended[c]), 2 * max_history))
      ELSE appended[c] = <<>>

\* C30: the status of a training job only moves forward through queued,
\* running and one terminal value, and a terminal status never changes: in
\* every step a job that exists keeps its status or moves it to a later
\* stage, and a completed, failed or cancelled job keeps its status.
StatusRank(status) ==
  CASE status = "queued" -> 0
    [] status = "running" -> 1
    [] OTHER -> 2

StatusMovesForward(job_id) ==
  LET before == training_jobs[job_id].status
      after  == training_jobs'[job_id].status
  IN  /\ StatusRank(before) <= StatusRank(after)
      /\ before \in TerminalStatuses => after = before

C30_StatusOnlyMovesForward ==
  [][\A job_id \in DOMAIN training_jobs : StatusMovesForward(job_id)]_vars

====
